---- MODULE Spec2Model ----
(***************************************************************************)
(* astra-personalday backend: the Luna session metering engine             *)
(* (routers/luna.py), the daily horoscope batch (routers/scheduler.py),    *)
(* the payments webhook, the Telegram bot, the iscrizioni and the auth      *)
(* middleware, modelled over the rows of the external store they use.       *)
(*                                                                         *)
(* Every store call of send_message is one step, so that two requests      *)
(* interleave exactly where the handler talks to the store or the model.   *)
(* start_session, end_session and get_luna_balance are single steps.       *)
(* Times are milliseconds; a session's created_at is not stored: the       *)
(* elapsed time end_session computes from the two clocks is its input.     *)
(***************************************************************************)
EXTENDS Integers, Sequences, FiniteSets, TLC

\* ------------------------------------------------------------------ bounds
MaxSessions == 2      \* luna_sessions rows that start_session may create
MaxMessages == 5      \* luna_messages rows at which no further turn is accepted
BatchUsers == 100     \* eligible profiles of the large batch
MaxOrders == 2        \* luna_minute_packs rows that create_luna_checkout may insert
MaxDeliveries == 3    \* signed webhook deliveries the provider makes
MaxJobs == 2          \* generate-daily requests
MaxDate == 2          \* the last calendar date the clock reaches
MaxEdits == 1         \* profile and partner edits, over all users
MaxEndCalls == 1      \* end_session requests that reach the debit, over all sessions
MaxTokens == 1        \* link tokens that generate_link_token draws
MaxUpdates == 3       \* updates the bot answers
MaxPushes == 1        \* send-telegram requests
MaxClienti == 2       \* clienti rows at which no further iscrizione is submitted
MaxRequests == 2      \* requests that pass the middleware, one after the other
MaxRepeats == 3       \* end_session requests on one session
MaxRuns == 2          \* send-telegram runs on one date
MaxLen == 3           \* characters of the ADMIN_EMAILS setting

Users == {"u1", "u2"}
Procs == {"p1"}
\* the request slots of the server: two send_message requests can be in flight
TurnProcs == {"p1", "p2"}
\* the partner profiles of the store and the user each belongs to
Partners == {"pa", "pb"}
PartnerOwner == [x \in Partners |-> IF x = "pa" THEN "u1" ELSE "u2"]
\* the clients that submit iscrizioni
Browsers == {"b1", "b2"}
\* the chats that write to the bot
Chats == {"c1", "c2"}
NoPartner == "none"
\* the order in which the store returns the selected profiles
UserOrder == <<"u1", "u2">>
\* scheduler.py:119  errors[:50]
ErrorLogCap == 50

\* elapsed times (ms) between created_at and the app clock that end_session may
\* compute: negative under clock skew, with and without a fraction of a minute
Elapsed == {0 - 61000, 0, 10000, 60000, 60400, 61000, 90000, 125000}
\* the two elapsed times end_session is given while turns are in flight
SessionElapsed == {10000, 90000}

VARIABLES
    subscriptions,   \* table subscriptions, one optional row per user
    profiles,        \* table profiles: the revision of each user's profile data
    partner_profiles,\* table partner_profiles, by partner id
    luna_sessions,   \* table luna_sessions, in insertion order (id = index)
    luna_messages,   \* table luna_messages, in creation order
    proc,            \* the send_message requests in flight: position and locals
    response,        \* the last HTTP response a luna handler returned
    deduct_rpc,      \* rpc deduct_luna_minutes: the calls made and the last call's arguments
    balance0,        \* per user, the balance the behaviour started with
    onboarded,       \* the users whose profiles row is active, onboarded, with a birth date
    today,           \* the calendar date date.today() returns
    daily_horoscopes,\* table daily_horoscopes, in insertion order
    scheduler_jobs,  \* table scheduler_jobs, in insertion order (id = index)
    job_run,         \* per generate-daily request (by job id): position, locals, history
    today_req,       \* per user, the GET /horoscope/today request in flight: position, date
    raises,          \* the users for whom the model call, or the insert, of a large batch raises
    luna_minute_packs,\* table luna_minute_packs: the minute-pack orders (id = index)
    services_orders, \* table services_orders: the single-service orders (id = index)
    stripe,          \* the payments provider: checkouts paid, signed deliveries made
    webhook_response,\* the last HTTP status POST /webhooks/stripe answered
    telegram_connections,\* table telegram_connections, in insertion order
    telegram_link_token,\* column profiles.telegram_link_token, per user (0 is null)
    tokens_issued,   \* the link tokens generate_link_token has drawn so far
    telegram_update, \* per chat, the /start <token> update in flight: position, locals
    telegram_log,    \* the updates the bot has answered: chat, text, token, reply
    telegram_sent,   \* column daily_horoscopes.telegram_sent: the (user, date) marked
    telegram_push,   \* the send-telegram runs: connections selected, chats sent to
    clienti,         \* table clienti, in insertion order (id = index)
    iscrizione,      \* per client, the POST /iscrivi request in flight: position, body
    iscrizione_response,\* the last response POST /iscrivi returned
    http,            \* the request passing the middleware: position, headers, answer
    admin            \* the request at an admin-only endpoint: setting, email, answer

vars == <<subscriptions, profiles, partner_profiles, luna_sessions, luna_messages,
          proc, response, deduct_rpc, balance0,
          onboarded, today, daily_horoscopes, scheduler_jobs, job_run, today_req,
          raises, luna_minute_packs, services_orders, stripe, webhook_response,
          telegram_connections, telegram_link_token, tokens_issued, telegram_update,
          telegram_log, telegram_sent, telegram_push,
          clienti, iscrizione, iscrizione_response, http, admin>>

\* the state of the handlers outside luna.py, profiles.py and scheduler.py
pay == <<luna_minute_packs, services_orders, stripe, webhook_response>>

\* the state of routers/telegram.py and of the send-telegram job
bot == <<telegram_connections, telegram_link_token, tokens_issued, telegram_update,
         telegram_log, telegram_sent, telegram_push>>

\* the state of the handlers at the edge of the service
\* the state of routers/clienti.py
clients == <<clienti, iscrizione, iscrizione_response>>

\* the state of the middleware of routers/auth.py
gate == <<http>>

\* the state of the admin checks of routers/telegram.py and routers/admin.py
console == <<admin>>

edge == <<bot, clients, gate, console>>

rest == <<today_req, raises, pay, edge>>

\* what the luna handlers never touch
daily == <<onboarded, today, daily_horoscopes, scheduler_jobs, job_run, rest>>

\* what the scheduler never touches
luna == <<subscriptions, partner_profiles, luna_sessions, luna_messages,
          proc, response, deduct_rpc, balance0, rest>>

tables == <<subscriptions, profiles, partner_profiles, luna_sessions, luna_messages>>

\* the state of luna.py, profiles.py, scheduler.py, horoscope.py and webhooks.py
core == <<tables, proc, response, deduct_rpc, balance0, onboarded, today,
          daily_horoscopes, scheduler_jobs, job_run, today_req, raises, pay>>

\* what the bot and the send-telegram job never touch
offBot == <<core, clients, gate, console>>

\* what the iscrizioni never touch
offClients == <<core, bot, gate, console>>

\* ----------------------------------------------------------------- helpers
NoSub == [exists |-> FALSE, luna_minutes_balance |-> 0, status |-> "none"]
NoSnapshot == [profile |-> 0, partner |-> NoPartner, partner_rev |-> 0, prev |-> 0]
Idle == [pc |-> "idle", user_id |-> "none", session_id |-> 0,
         messages_count |-> 0, context |-> NoSnapshot, voice_used |-> FALSE,
         bal |-> 0, system |-> <<>>]
NoResponse == [op |-> "none", code |-> 0, session_id |-> 0, minutes |-> 0,
               duration_minutes |-> 0, minutes_charged |-> 0]

SessionIds == 1..Len(luna_sessions)

Balance(u) == subscriptions[u].luna_minutes_balance

\* int(x / y) of Python for y > 0: truncation toward zero
TruncDiv(x, y) == IF x >= 0 THEN x \div y ELSE 0 - ((0 - x) \div y)

Max(a, b) == IF a >= b THEN a ELSE b
Min(a, b) == IF a <= b THEN a ELSE b

\* a rounding that forgets the started minute
DurationMin_floor(ms) == Max(1, TruncDiv(ms, 60000))

\* luna.py:264  max(1, int(duration_sec / 60) + (1 if duration_sec % 60 > 0 else 0))
\* with duration_sec = ms / 1000; Python's % takes the sign of the divisor
DurationMin(ms) ==
    Max(1, TruncDiv(ms, 60000) + (IF ms % 60000 > 0 THEN 1 ELSE 0))

\* rpc deduct_luna_minutes: the store's atomic decrement of the balance
DeductLunaMinutes(subs, u, minutes) ==
    IF subs[u].exists
    THEN [subs EXCEPT ![u].luna_minutes_balance = @ - minutes]
    ELSE subs

\* luna.py:55-97  the grounding context of a user
BuildUserContext(u, partner_id) ==
    LET ended == {i \in SessionIds : luna_sessions[i].user_id = u
                                     /\ luna_sessions[i].status = "ended"}
        withPartner == partner_id # NoPartner /\ partner_id \in DOMAIN partner_profiles
    IN [profile |-> profiles[u],
        partner |-> IF withPartner THEN partner_id ELSE NoPartner,
        partner_rev |-> IF withPartner THEN partner_profiles[partner_id].rev ELSE 0,
        prev |-> Min(3, Cardinality(ended))]

\* luna.py:197-198  LUNA_SYSTEM_PROMPT.format(user_context=context)
SystemPrompt(context) == <<"LUNA_SYSTEM_PROMPT", context>>

\* a select that forgets the status filter
ActiveSessionOf_anyStatus(u, sid) ==
    /\ sid \in SessionIds
    /\ luna_sessions[sid].user_id = u

\* luna.py:175  the row send_message selects: id, owner and status active
ActiveSessionOf(u, sid) ==
    /\ sid \in SessionIds
    /\ luna_sessions[sid].user_id = u
    /\ luna_sessions[sid].status = "active"

\* a select that forgets the owner filter
SessionOf_anyOwner(u, sid) ==
    sid \in SessionIds

\* luna.py:257  the row end_session selects: id and owner, any status
SessionOf(u, sid) ==
    /\ sid \in SessionIds
    /\ luna_sessions[sid].user_id = u

\* the JSON body a handler returns (or the status of the HTTPException it raises):
\* session_id of start, minutes_available or minutes_remaining or balance,
\* duration_minutes and minutes_charged of end
Respond(op, code, sid, minutes, dur) ==
    [op |-> op, code |-> code, session_id |-> sid, minutes |-> minutes,
     duration_minutes |-> dur, minutes_charged |-> dur]

\* no request has been received
NoRequest == [pc |-> "done", n |-> 0, method |-> "none", path |-> "none",
              authorization |-> "none", x_cron_secret |-> "missing", status |-> 0,
              user_id |-> "none", handler |-> "none", mark |-> 0]

\* no request has reached an admin-only endpoint; ADMIN_EMAILS is not set
NoAdminRequest == [admin_emails |-> <<>>, user_email |-> <<>>, handler |-> "none",
                   status |-> 0]

\* no /start <token> update of the chat is being handled
NoUpdate == [pc |-> "idle", token |-> 0, existing |-> FALSE, user_id |-> "none"]

\* ------------------------------------------------------------------- Init
\* the subscription the subscribed caller starts with: a nearly exhausted expired
\* trial, or an active plan with 15 minutes
InitSubscriptions ==
    {[exists |-> TRUE, luna_minutes_balance |-> 1, status |-> "expired"],
     [exists |-> TRUE, luna_minutes_balance |-> 15, status |-> "active"]}

\* the rows and the requests of every handler but the admin-only ones
InitRows ==
    /\ \E sub \in InitSubscriptions :
           subscriptions = [u \in Users |-> IF u = "u1" THEN sub ELSE NoSub]
    /\ profiles = [u \in Users |-> 0]
    /\ partner_profiles = [x \in Partners |->
           [user_id |-> PartnerOwner[x], rev |-> 0, is_active |-> TRUE]]
    /\ luna_sessions = <<>>
    /\ luna_messages = <<>>
    /\ proc = [p \in TurnProcs |-> Idle]
    /\ response = NoResponse
    /\ deduct_rpc = [calls |-> 0, p_user_id |-> "none", p_minutes |-> 0]
    /\ balance0 = [u \in Users |-> subscriptions[u].luna_minutes_balance]
    /\ today_req = [u \in Users |-> [pc |-> "idle", today |-> 0]]
    /\ luna_minute_packs = <<>>
    /\ services_orders = <<[user_id |-> "u1", order_status |-> "pending",
                            status |-> "created"]>>
    /\ stripe = [paid |-> {}, deliveries |-> 0]
    /\ webhook_response = 0
    /\ telegram_connections = <<>>
    /\ telegram_link_token = [u \in Users |-> 0]
    /\ tokens_issued = 0
    /\ telegram_update = [c \in Chats |-> NoUpdate]
    /\ telegram_log = <<>>
    /\ telegram_sent = {}
    /\ telegram_push = <<>>
    /\ clienti = <<>>
    /\ iscrizione = [p \in Browsers |-> [pc |-> "idle", email |-> <<>>]]
    /\ iscrizione_response = [ok |-> FALSE, nuovo |-> FALSE, cliente_id |-> 0, code |-> 0]
    /\ http = NoRequest

InitLuna == InitRows /\ admin = NoAdminRequest

Init ==
    /\ InitLuna
    /\ raises = [model |-> {}, insert |-> {}]
    /\ onboarded = {"u1"}
    /\ today = 1
    /\ daily_horoscopes = <<>>
    /\ scheduler_jobs = <<>>
    /\ job_run = <<>>

\* ------------------------------------------------- POST /luna/session/start
\* a balance check that lets an empty balance through
StartCheck_zeroOk(u) ==
    IF ~subscriptions[u].exists THEN 403
    ELSE IF Balance(u) < 0 THEN 402
    ELSE 200

\* luna.py:137-144  the subscription and balance preconditions of start_session
StartCheck(u) ==
    IF ~subscriptions[u].exists THEN 403
    ELSE IF Balance(u) < 1 THEN 402
    ELSE 200

StartSession(u, partner_id, use_voice) ==
    /\ IF StartCheck(u) # 200
       THEN /\ response' = Respond("start", StartCheck(u), 0, 0, 0)
            /\ UNCHANGED luna_sessions
       ELSE /\ Len(luna_sessions) < MaxSessions
            /\ luna_sessions' = Append(luna_sessions,
                   [user_id |-> u, partner_id |-> partner_id, status |-> "active",
                    voice_used |-> use_voice,
                    context_snapshot |-> BuildUserContext(u, partner_id),
                    messages_count |-> 0, ended_reason |-> "null",
                    duration_minutes |-> 0, minutes_charged |-> 0])
            /\ response' = Respond("start", 200, Len(luna_sessions) + 1, Balance(u), 0)
    /\ UNCHANGED <<subscriptions, profiles, partner_profiles, luna_messages, proc,
                   deduct_rpc, balance0, daily>>

\* --------------------------------------------------- POST /luna/session/end
\* an update that forgets minutes_charged
EndedRow_noCharge(row, duration_min) ==
    [row EXCEPT !.status = "ended", !.ended_reason = "user_ended",
                !.duration_minutes = duration_min]

\* luna.py:269-276  the fields end_session writes to the session row
EndedRow(row, duration_min) ==
    [row EXCEPT !.status = "ended", !.ended_reason = "user_ended",
                !.duration_minutes = duration_min, !.minutes_charged = duration_min]

\* luna.py:248-286  end_session: select by id and owner (any status), debit the
\* elapsed minutes, write the row
EndSessionCall(u, sid, elapsed) ==
    /\ IF ~SessionOf(u, sid)
       THEN /\ response' = Respond("end", 404, 0, 0, 0)
            /\ UNCHANGED <<subscriptions, luna_sessions, deduct_rpc>>
       ELSE LET duration_min == DurationMin(elapsed)
                subs == DeductLunaMinutes(subscriptions, u, duration_min)
            IN /\ deduct_rpc' = [calls |-> deduct_rpc.calls + 1, p_user_id |-> u,
                                 p_minutes |-> duration_min]
               /\ subscriptions' = subs
               /\ luna_sessions' = [luna_sessions EXCEPT
                      ![sid] = EndedRow(luna_sessions[sid], duration_min)]
               /\ response' = Respond("end", 200, 0,
                      IF subs[u].exists THEN subs[u].luna_minutes_balance ELSE 0,
                      duration_min)
    /\ UNCHANGED <<profiles, partner_profiles, luna_messages, proc, balance0, daily>>

\* end_session, while fewer than MaxEndCalls requests have reached the debit
EndSession(u, sid, elapsed) ==
    /\ SessionOf(u, sid) => deduct_rpc.calls < MaxEndCalls
    /\ EndSessionCall(u, sid, elapsed)

\* ------------------------------------------------------- GET /luna/balance
GetLunaBalance(u) ==
    /\ response' = Respond("balance", 200, 0,
                           IF subscriptions[u].exists THEN Balance(u) ELSE 0, 0)
    /\ UNCHANGED <<tables, proc, deduct_rpc, balance0, daily>>

\* ------------------------------------------------------ POST /luna/message
\* luna.py:174-177  select the caller's active session, else 404
TurnSelectSession(p, u, sid) ==
    /\ proc[p].pc = "idle"
    /\ Len(luna_messages) < MaxMessages
    /\ IF ActiveSessionOf(u, sid)
       THEN /\ proc' = [proc EXCEPT ![p] = [Idle EXCEPT
                   !.pc = "check_balance", !.user_id = u, !.session_id = sid,
                   !.messages_count = luna_sessions[sid].messages_count,
                   !.context = luna_sessions[sid].context_snapshot,
                   !.voice_used = luna_sessions[sid].voice_used]]
            /\ UNCHANGED response
       ELSE /\ response' = Respond("turn", 404, 0, 0, 0)
            /\ UNCHANGED proc
    /\ UNCHANGED <<tables, deduct_rpc, balance0, daily>>

\* a re-check that lets an empty balance through
TurnCheckBalance_zeroOk(p) ==
    LET u == proc[p].user_id IN
    /\ proc[p].pc = "check_balance"
    /\ IF ~subscriptions[u].exists \/ Balance(u) < 0
       THEN proc' = [proc EXCEPT ![p].pc = "pause"]
       ELSE proc' = [proc EXCEPT ![p].pc = "call_model", ![p].bal = Balance(u)]
    /\ UNCHANGED <<tables, response, deduct_rpc, balance0, daily>>

\* luna.py:179-181  re-read the balance
TurnCheckBalance(p) ==
    LET u == proc[p].user_id IN
    /\ proc[p].pc = "check_balance"
    /\ IF ~subscriptions[u].exists \/ Balance(u) < 1
       THEN proc' = [proc EXCEPT ![p].pc = "pause"]
       ELSE proc' = [proc EXCEPT ![p].pc = "call_model", ![p].bal = Balance(u)]
    /\ UNCHANGED <<tables, response, deduct_rpc, balance0, daily>>

\* luna.py:182-187  pause the session (update by id alone) and answer 402
TurnPause(p) ==
    LET sid == proc[p].session_id IN
    /\ proc[p].pc = "pause"
    /\ luna_sessions' = [luna_sessions EXCEPT ![sid].status = "paused",
                                              ![sid].ended_reason = "time_expired"]
    /\ response' = Respond("turn", 402, 0, 0, 0)
    /\ proc' = [proc EXCEPT ![p] = Idle]
    /\ UNCHANGED <<subscriptions, profiles, partner_profiles, luna_messages,
                   deduct_rpc, balance0, daily>>

\* a turn that rebuilds the grounding context from the data as it is now
TurnCallModel_rebuild(p, ok) ==
    /\ proc[p].pc = "call_model"
    /\ IF ok
       THEN /\ proc' = [proc EXCEPT ![p].pc = "save_user",
                  ![p].system = SystemPrompt(BuildUserContext(proc[p].user_id,
                      luna_sessions[proc[p].session_id].partner_id))]
            /\ UNCHANGED response
       ELSE /\ response' = Respond("turn", 500, 0, 0, 0)
            /\ proc' = [proc EXCEPT ![p] = Idle]
    /\ UNCHANGED <<tables, deduct_rpc, balance0, daily>>

\* luna.py:189-209  read the history, build the system prompt, call the model;
\* an exception of the model call leaves the handler (500)
TurnCallModel(p, ok) ==
    /\ proc[p].pc = "call_model"
    /\ IF ok
       THEN /\ proc' = [proc EXCEPT ![p].pc = "save_user",
                                    ![p].system = SystemPrompt(proc[p].context)]
            /\ UNCHANGED response
       ELSE /\ response' = Respond("turn", 500, 0, 0, 0)
            /\ proc' = [proc EXCEPT ![p] = Idle]
    /\ UNCHANGED <<tables, deduct_rpc, balance0, daily>>

\* luna.py:211-217  insert the user message
TurnSaveUser(p) ==
    /\ proc[p].pc = "save_user"
    /\ luna_messages' = Append(luna_messages,
           [session_id |-> proc[p].session_id, user_id |-> proc[p].user_id,
            role |-> "user", audio_url |-> "null"])
    /\ proc' = [proc EXCEPT ![p].pc = "save_assistant"]
    /\ UNCHANGED <<subscriptions, profiles, partner_profiles, luna_sessions, response,
                   deduct_rpc, balance0, daily>>

\* luna.py:219-232  synthesize the voice if the session asked for it (a failure
\* yields no audio), insert the assistant message
TurnSaveAssistant(p, audio_url) ==
    /\ proc[p].pc = "save_assistant"
    /\ audio_url \in (IF proc[p].voice_used THEN {"audio_generated", "null"} ELSE {"null"})
    /\ luna_messages' = Append(luna_messages,
           [session_id |-> proc[p].session_id, user_id |-> proc[p].user_id,
            role |-> "assistant", audio_url |-> audio_url])
    /\ proc' = [proc EXCEPT ![p].pc = "update_count"]
    /\ UNCHANGED <<subscriptions, profiles, partner_profiles, luna_sessions, response,
                   deduct_rpc, balance0, daily>>

\* luna.py:234-237  write messages_count from the row read at the start
TurnUpdateCount(p) ==
    LET sid == proc[p].session_id IN
    /\ proc[p].pc = "update_count"
    /\ luna_sessions' = [luna_sessions EXCEPT
           ![sid].messages_count = proc[p].messages_count + 1]
    /\ proc' = [proc EXCEPT ![p].pc = "return"]
    /\ UNCHANGED <<subscriptions, profiles, partner_profiles, luna_messages, response,
                   deduct_rpc, balance0, daily>>

\* an answer that reuses the balance read at the start of the turn
TurnReturn_stale(p) ==
    /\ proc[p].pc = "return"
    /\ response' = Respond("turn", 200, 0, proc[p].bal, 0)
    /\ proc' = [proc EXCEPT ![p] = Idle]
    /\ UNCHANGED <<tables, deduct_rpc, balance0, daily>>

\* luna.py:239-246  read the balance again and answer
TurnReturn(p) ==
    LET u == proc[p].user_id IN
    /\ proc[p].pc = "return"
    /\ response' = Respond("turn", 200, 0, Balance(u), 0)
    /\ proc' = [proc EXCEPT ![p] = Idle]
    /\ UNCHANGED <<tables, deduct_rpc, balance0, daily>>

TurnStep(p) ==
    \/ \E u \in Users, sid \in 1..MaxSessions : TurnSelectSession(p, u, sid)
    \/ TurnCheckBalance(p)
    \/ TurnPause(p)
    \/ \E ok \in BOOLEAN : TurnCallModel(p, ok)
    \/ TurnSaveUser(p)
    \/ \E a \in {"audio_generated", "null"} : TurnSaveAssistant(p, a)
    \/ TurnUpdateCount(p)
    \/ TurnReturn(p)

\* ------------------------------------------------ /profiles: edits of the data
\* the number of edits made so far
Edits ==
    profiles["u1"] + profiles["u2"] + partner_profiles["pa"].rev
        + (IF partner_profiles["pa"].is_active THEN 0 ELSE 1)

\* profiles.py:114, 136, 168-170  update of the caller's own profiles row
ProfilesUpdate(u) ==
    /\ Edits < MaxEdits
    /\ profiles' = [profiles EXCEPT ![u] = @ + 1]
    /\ UNCHANGED <<luna, today, daily_horoscopes, scheduler_jobs, job_run>>

\* profiles.py:109-115  PATCH /profiles/me
UpdateProfile(u) == ProfilesUpdate(u) /\ UNCHANGED onboarded

\* profiles.py:117-137  POST /profiles/me/birth-data: a body with birth date and
\* birth city also sets onboarding_completed
SaveBirthData(u, date_and_city) ==
    /\ ProfilesUpdate(u)
    /\ onboarded' = IF date_and_city THEN onboarded \cup {u} ELSE onboarded

\* profiles.py:163-171  PATCH /profiles/me/life-situation
UpdateLifeSituation(u) == ProfilesUpdate(u) /\ UNCHANGED onboarded

\* profiles.py:196-206  PATCH /profiles/me/partners/{partner_id}: the row with
\* that id and the caller as owner, if any
UpdatePartner(u, partner_id) ==
    /\ Edits < MaxEdits
    /\ partner_profiles' = [x \in DOMAIN partner_profiles |->
           IF x = partner_id /\ partner_profiles[x].user_id = u
           THEN [partner_profiles[x] EXCEPT !.rev = @ + 1]
           ELSE partner_profiles[x]]
    /\ UNCHANGED <<subscriptions, profiles, luna_sessions, luna_messages,
                   proc, response, deduct_rpc, balance0, daily>>

\* profiles.py:208-213  DELETE /profiles/me/partners/{partner_id}: is_active False
DeletePartner(u, partner_id) ==
    /\ Edits < MaxEdits
    /\ partner_profiles' = [x \in DOMAIN partner_profiles |->
           IF x = partner_id /\ partner_profiles[x].user_id = u
           THEN [partner_profiles[x] EXCEPT !.is_active = FALSE]
           ELSE partner_profiles[x]]
    /\ UNCHANGED <<subscriptions, profiles, luna_sessions, luna_messages,
                   proc, response, deduct_rpc, balance0, daily>>

\* ------------------------------------------- POST /scheduler/generate-daily
\* The request carries the right cron secret. Each store call and each model call
\* is one step of the job whose id is j.
JobIds == 1..Len(scheduler_jobs)

HasRow(u, d) ==
    \E i \in 1..Len(daily_horoscopes) :
        daily_horoscopes[i].user_id = u /\ daily_horoscopes[i].horoscope_date = d

\* scheduler.py:44-52  read the date, insert the job row with status running
JobStart ==
    /\ Len(scheduler_jobs) < MaxJobs
    /\ scheduler_jobs' = Append(scheduler_jobs,
           [job_type |-> "daily_generation", job_date |-> today, status |-> "running",
            users_processed |-> 0, users_success |-> 0, users_failed |-> 0,
            error_log |-> <<>>])
    /\ job_run' = Append(job_run,
           [pc |-> "select_users", today |-> today, users |-> <<>>, i |-> 1,
            processed |-> 0, success |-> 0, failed |-> 0, errors |-> <<>>,
            called |-> {}, inserted |-> {}, skipped |-> {},
            after |-> {k \in JobIds : scheduler_jobs[k].status = "completed"}])
    /\ UNCHANGED <<luna, profiles, onboarded, today, daily_horoscopes>>

\* scheduler.py:54-68  select the eligible profiles, zero the counters
JobSelectUsers(j) ==
    /\ job_run[j].pc = "select_users"
    /\ job_run' = [job_run EXCEPT
           ![j].users = SelectSeq(UserOrder, LAMBDA u : u \in onboarded),
           ![j].pc = "check_existing"]
    /\ UNCHANGED <<luna, profiles, onboarded, today, daily_horoscopes, scheduler_jobs>>

\* a check that never finds the row
JobCheckExisting_blind(j) ==
    LET r == job_run[j] IN
    /\ r.pc = "check_existing"
    /\ IF r.i > Len(r.users)
       THEN job_run' = [job_run EXCEPT ![j].pc = "finish"]
       ELSE job_run' = [job_run EXCEPT ![j].pc = "generate"]
    /\ UNCHANGED <<luna, profiles, onboarded, today, daily_horoscopes, scheduler_jobs>>

\* scheduler.py:70-82  next user of the list: a row of the job's date counts the
\* user as processed and successful; after the last user the loop is left
JobCheckExisting(j) ==
    LET r == job_run[j] IN
    /\ r.pc = "check_existing"
    /\ IF r.i > Len(r.users)
       THEN job_run' = [job_run EXCEPT ![j].pc = "finish"]
       ELSE IF HasRow(r.users[r.i], r.today)
       THEN job_run' = [job_run EXCEPT
                ![j].processed = @ + 1, ![j].success = @ + 1, ![j].i = @ + 1,
                ![j].skipped = @ \cup {r.users[r.i]}]
       ELSE job_run' = [job_run EXCEPT ![j].pc = "generate"]
    /\ UNCHANGED <<luna, profiles, onboarded, today, daily_horoscopes, scheduler_jobs>>

\* a model call whose exception leaves the handler
JobGenerate_abort(j, ok) ==
    LET r == job_run[j]
        u == r.users[r.i]
    IN
    /\ r.pc = "generate"
    /\ IF ok
       THEN job_run' = [job_run EXCEPT ![j].pc = "insert",
                                       ![j].called = @ \cup {u}]
       ELSE job_run' = [job_run EXCEPT ![j].called = @ \cup {u},
                                       ![j].pc = "aborted"]
    /\ UNCHANGED <<luna, profiles, onboarded, today, daily_horoscopes, scheduler_jobs>>

\* scheduler.py:85, 106-110  the model call; an exception counts the user as failed
JobGenerate(j, ok) ==
    LET r == job_run[j]
        u == r.users[r.i]
    IN
    /\ r.pc = "generate"
    /\ IF ok
       THEN job_run' = [job_run EXCEPT ![j].pc = "insert",
                                       ![j].called = @ \cup {u}]
       ELSE job_run' = [job_run EXCEPT
                ![j].failed = @ + 1,
                ![j].errors = Append(@, u),
                ![j].processed = @ + 1, ![j].i = @ + 1,
                ![j].called = @ \cup {u},
                ![j].pc = "check_existing"]
    /\ UNCHANGED <<luna, profiles, onboarded, today, daily_horoscopes, scheduler_jobs>>

\* scheduler.py:88-110  insert the row of the job's date with status completed;
\* an exception of the insert counts the user as failed
JobInsert(j, ok) ==
    LET r == job_run[j]
        u == r.users[r.i]
    IN
    /\ r.pc = "insert"
    /\ IF ok
       THEN /\ daily_horoscopes' = Append(daily_horoscopes,
                   [user_id |-> u, horoscope_date |-> r.today, status |-> "completed"])
            /\ job_run' = [job_run EXCEPT
                   ![j].success = @ + 1, ![j].processed = @ + 1, ![j].i = @ + 1,
                   ![j].inserted = @ \cup {u},
                   ![j].pc = "check_existing"]
       ELSE /\ job_run' = [job_run EXCEPT
                   ![j].failed = @ + 1,
                   ![j].errors = Append(@, u),
                   ![j].processed = @ + 1, ![j].i = @ + 1,
                   ![j].pc = "check_existing"]
            /\ UNCHANGED daily_horoscopes
    /\ UNCHANGED <<luna, profiles, onboarded, today, scheduler_jobs>>

\* a job update that logs every error
JobFinish_uncapped(j) ==
    LET r == job_run[j] IN
    /\ r.pc = "finish"
    /\ scheduler_jobs' = [scheduler_jobs EXCEPT ![j] = [@ EXCEPT
           !.status = "completed",
           !.users_processed = r.processed,
           !.users_success = r.success,
           !.users_failed = r.failed,
           !.error_log = r.errors]]
    /\ job_run' = [job_run EXCEPT ![j].pc = "done"]
    /\ UNCHANGED <<luna, profiles, onboarded, today, daily_horoscopes>>

\* scheduler.py:112-128  write the counters and the capped error log, completed
JobFinish(j) ==
    LET r == job_run[j] IN
    /\ r.pc = "finish"
    /\ scheduler_jobs' = [scheduler_jobs EXCEPT ![j] = [@ EXCEPT
           !.status = "completed",
           !.users_processed = r.processed,
           !.users_success = r.success,
           !.users_failed = r.failed,
           !.error_log = SubSeq(r.errors, 1, Min(Len(r.errors), ErrorLogCap))]]
    /\ job_run' = [job_run EXCEPT ![j].pc = "done"]
    /\ UNCHANGED <<luna, profiles, onboarded, today, daily_horoscopes>>

\* scheduler.py:44  the calendar date changes
Midnight ==
    /\ today < MaxDate
    /\ today' = today + 1
    /\ UNCHANGED <<luna, profiles, onboarded, daily_horoscopes, scheduler_jobs, job_run>>

\* ----------------------------------------------------- GET /horoscope/today
\* the rows of daily_horoscopes the on-demand handler counts as an answer
HasCompletedRow(u, d) ==
    \E i \in 1..Len(daily_horoscopes) :
        /\ daily_horoscopes[i].user_id = u
        /\ daily_horoscopes[i].horoscope_date = d
        /\ daily_horoscopes[i].status = "completed"

\* the store's upsert: the row with the key (user_id, horoscope_date) is replaced,
\* and inserted when there is none
Upsert(rows, record) ==
    IF \E i \in 1..Len(rows) : /\ rows[i].user_id = record.user_id
                               /\ rows[i].horoscope_date = record.horoscope_date
    THEN [i \in 1..Len(rows) |->
             IF /\ rows[i].user_id = record.user_id
                /\ rows[i].horoscope_date = record.horoscope_date
             THEN record ELSE rows[i]]
    ELSE Append(rows, record)

\* horoscope.py:132-147  read the date and today's row; a completed row is the
\* answer, a profile without birth date answers 400
TodayRead(u) ==
    /\ today_req[u].pc = "idle"
    /\ ~HasCompletedRow(u, today)
    /\ u \in onboarded
    /\ today_req' = [today_req EXCEPT ![u] = [pc |-> "generate", today |-> today]]
    /\ UNCHANGED <<subscriptions, profiles, partner_profiles, luna_sessions,
                   luna_messages, proc, response, deduct_rpc, balance0,
                   onboarded, today, daily_horoscopes, scheduler_jobs, job_run,
                   raises, pay, edge>>

\* horoscope.py:149-163  transits and the model call; an exception answers 500
TodayGenerate(u, ok) ==
    /\ today_req[u].pc = "generate"
    /\ today_req' = [today_req EXCEPT ![u].pc = IF ok THEN "upsert" ELSE "idle"]
    /\ UNCHANGED <<subscriptions, profiles, partner_profiles, luna_sessions,
                   luna_messages, proc, response, deduct_rpc, balance0,
                   onboarded, today, daily_horoscopes, scheduler_jobs, job_run,
                   raises, pay, edge>>

\* horoscope.py:165-181  upsert the record of the date read at the start
TodayUpsert(u) ==
    /\ today_req[u].pc = "upsert"
    /\ daily_horoscopes' = Upsert(daily_horoscopes,
           [user_id |-> u, horoscope_date |-> today_req[u].today,
            status |-> "completed"])
    /\ today_req' = [today_req EXCEPT ![u].pc = "idle"]
    /\ UNCHANGED <<subscriptions, profiles, partner_profiles, luna_sessions,
                   luna_messages, proc, response, deduct_rpc, balance0,
                   onboarded, today, scheduler_jobs, job_run, raises, pay, edge>>

\* ------------------------------------------------ payments: webhooks.py
\* webhooks.py:17-22  the minutes of each pack
LUNA_PACKS == [pack_id \in {"15min", "30min", "60min", "monthly"} |->
                  CASE pack_id = "15min" -> 15
                    [] pack_id = "30min" -> 30
                    [] pack_id = "60min" -> 60
                    [] pack_id = "monthly" -> 300]

\* rpc add_luna_minutes: the store's atomic increment of the balance
AddLunaMinutes(subs, u, minutes) ==
    IF u \in DOMAIN subs /\ subs[u].exists
    THEN [subs EXCEPT ![u].luna_minutes_balance = @ + minutes]
    ELSE subs

\* webhooks.py:37-96  POST /services/luna/checkout: a pending order of the pack
CreateLunaCheckout(u, pack_id) ==
    /\ pack_id \in DOMAIN LUNA_PACKS
    /\ Len(luna_minute_packs) < MaxOrders
    /\ luna_minute_packs' = Append(luna_minute_packs,
           [user_id |-> u, pack_name |-> pack_id,
            minutes_purchased |-> LUNA_PACKS[pack_id],
            order_status |-> "pending", is_consumed |-> "null"])
    /\ UNCHANGED <<subscriptions, profiles, partner_profiles, luna_sessions,
                   luna_messages, proc, response, deduct_rpc, balance0,
                   onboarded, today, daily_horoscopes, scheduler_jobs, job_run,
                   today_req, raises, edge, services_orders, stripe, webhook_response>>

\* the buyer pays the checkout session of order k at the provider
PayCheckout(k) ==
    /\ k \in 1..Len(luna_minute_packs)
    /\ k \notin stripe.paid
    /\ stripe' = [stripe EXCEPT !.paid = @ \cup {k}]
    /\ UNCHANGED <<subscriptions, profiles, partner_profiles, luna_sessions,
                   luna_messages, proc, response, deduct_rpc, balance0,
                   onboarded, today, daily_horoscopes, scheduler_jobs, job_run,
                   today_req, raises, edge, luna_minute_packs, services_orders,
                   webhook_response>>

\* webhooks.py:85-90  the checkout-completed event of pack order k, with the
\* metadata create_luna_checkout gave the session
PackEvent(k) ==
    [type |-> "checkout.session.completed",
     user_id |-> luna_minute_packs[k].user_id,
     pack_id |-> luna_minute_packs[k].pack_name,
     minutes |-> luna_minute_packs[k].minutes_purchased,
     order_id |-> k, service_type |-> "none"]

\* the events the provider may sign, besides those of paid pack orders
OtherEvents ==
    {[type |-> "checkout.session.completed", user_id |-> "u1", pack_id |-> "none",
      minutes |-> 0, order_id |-> 1, service_type |-> "report"],
     [type |-> "checkout.session.completed", user_id |-> "none", pack_id |-> "none",
      minutes |-> 0, order_id |-> 0, service_type |-> "none"],
     [type |-> "customer.subscription.deleted", user_id |-> "u1", pack_id |-> "none",
      minutes |-> 0, order_id |-> 0, service_type |-> "none"],
     [type |-> "invoice.payment_failed", user_id |-> "u1", pack_id |-> "none",
      minutes |-> 0, order_id |-> 0, service_type |-> "none"]}

SignedEvents == {PackEvent(k) : k \in stripe.paid} \cup OtherEvents

\* what a sender without the webhook secret may post: any event at all
AnyEvents == {PackEvent(k) : k \in 1..Len(luna_minute_packs)} \cup OtherEvents

\* a webhook that skips the signature
StripeWebhook_unverified(event, signature_ok) ==
    /\ webhook_response' = 200
    /\ stripe' = stripe
    /\ luna_minute_packs' =
           IF event.pack_id # "none" /\ event.order_id \in 1..Len(luna_minute_packs)
           THEN [luna_minute_packs EXCEPT ![event.order_id].order_status = "paid",
                                          ![event.order_id].is_consumed = "false"]
           ELSE luna_minute_packs
    /\ subscriptions' = AddLunaMinutes(subscriptions, event.user_id, event.minutes)
    /\ UNCHANGED <<profiles, partner_profiles, luna_sessions,
                   luna_messages, proc, response, deduct_rpc, balance0,
                   onboarded, today, daily_horoscopes, scheduler_jobs, job_run,
                   today_req, raises, edge, services_orders>>

\* webhooks.py:127-173  events of every branch of the dispatch: subscription and
\* invoice events of either user's subscription and of one the store does not
\* hold, and an event kind the webhook does not handle
DispatchEvents ==
    OtherEvents \cup
    {[type |-> t, user_id |-> u, pack_id |-> "none", minutes |-> 0, order_id |-> 0,
      service_type |-> "none"] :
        t \in {"customer.subscription.deleted", "invoice.payment_failed",
               "charge.refunded"},
        u \in {"u1", "u2", "u9"}}

\* a webhook whose subscription updates carry no filter on the provider's id
StripeWebhook_unfiltered(event, signature_ok) ==
    /\ IF ~signature_ok
       THEN /\ webhook_response' = 400
            /\ UNCHANGED <<subscriptions, luna_minute_packs, services_orders, stripe>>
       ELSE /\ stripe.deliveries < MaxDeliveries
            /\ stripe' = [stripe EXCEPT !.deliveries = @ + 1]
            /\ webhook_response' = 200
            /\ IF event.type = "checkout.session.completed"
               THEN IF event.user_id = "none"
                    THEN UNCHANGED <<subscriptions, luna_minute_packs, services_orders>>
                    ELSE IF event.pack_id # "none"
                    THEN /\ luna_minute_packs' =
                              [k \in 1..Len(luna_minute_packs) |->
                                  IF k = event.order_id
                                  THEN [luna_minute_packs[k] EXCEPT
                                           !.order_status = "paid",
                                           !.is_consumed = "false"]
                                  ELSE luna_minute_packs[k]]
                         /\ subscriptions' =
                              AddLunaMinutes(subscriptions, event.user_id, event.minutes)
                         /\ UNCHANGED services_orders
                    ELSE IF event.service_type # "none"
                    THEN /\ services_orders' =
                              [k \in 1..Len(services_orders) |->
                                  IF k = event.order_id
                                  THEN [services_orders[k] EXCEPT
                                           !.order_status = "paid",
                                           !.status = "pending"]
                                  ELSE services_orders[k]]
                         /\ UNCHANGED <<subscriptions, luna_minute_packs>>
                    ELSE UNCHANGED <<subscriptions, luna_minute_packs, services_orders>>
               ELSE IF event.type = "customer.subscription.deleted"
               THEN /\ subscriptions' =
                         [u \in Users |->
                             IF subscriptions[u].exists
                             THEN [subscriptions[u] EXCEPT !.status = "cancelled"]
                             ELSE subscriptions[u]]
                    /\ UNCHANGED <<luna_minute_packs, services_orders>>
               ELSE IF event.type = "invoice.payment_failed"
               THEN /\ subscriptions' =
                         [u \in Users |->
                             IF subscriptions[u].exists
                             THEN [subscriptions[u] EXCEPT !.status = "paused"]
                             ELSE subscriptions[u]]
                    /\ UNCHANGED <<luna_minute_packs, services_orders>>
               ELSE UNCHANGED <<subscriptions, luna_minute_packs, services_orders>>
    /\ UNCHANGED <<profiles, partner_profiles, luna_sessions,
                   luna_messages, proc, response, deduct_rpc, balance0,
                   onboarded, today, daily_horoscopes, scheduler_jobs, job_run,
                   today_req, raises, edge>>

\* webhooks.py:101-175  POST /webhooks/stripe
StripeWebhook(event, signature_ok) ==
    /\ IF ~signature_ok
       THEN /\ webhook_response' = 400
            /\ UNCHANGED <<subscriptions, luna_minute_packs, services_orders, stripe>>
       ELSE /\ stripe.deliveries < MaxDeliveries
            /\ stripe' = [stripe EXCEPT !.deliveries = @ + 1]
            /\ webhook_response' = 200
            /\ IF event.type = "checkout.session.completed"
               THEN IF event.user_id = "none"
                    THEN UNCHANGED <<subscriptions, luna_minute_packs, services_orders>>
                    ELSE IF event.pack_id # "none"
                    THEN /\ luna_minute_packs' =
                              [k \in 1..Len(luna_minute_packs) |->
                                  IF k = event.order_id
                                  THEN [luna_minute_packs[k] EXCEPT
                                           !.order_status = "paid",
                                           !.is_consumed = "false"]
                                  ELSE luna_minute_packs[k]]
                         /\ subscriptions' =
                              AddLunaMinutes(subscriptions, event.user_id, event.minutes)
                         /\ UNCHANGED services_orders
                    ELSE IF event.service_type # "none"
                    THEN /\ services_orders' =
                              [k \in 1..Len(services_orders) |->
                                  IF k = event.order_id
                                  THEN [services_orders[k] EXCEPT
                                           !.order_status = "paid",
                                           !.status = "pending"]
                                  ELSE services_orders[k]]
                         /\ UNCHANGED <<subscriptions, luna_minute_packs>>
                    ELSE UNCHANGED <<subscriptions, luna_minute_packs, services_orders>>
               ELSE IF event.type = "customer.subscription.deleted"
               THEN /\ subscriptions' =
                         [u \in Users |->
                             IF u = event.user_id /\ subscriptions[u].exists
                             THEN [subscriptions[u] EXCEPT !.status = "cancelled"]
                             ELSE subscriptions[u]]
                    /\ UNCHANGED <<luna_minute_packs, services_orders>>
               ELSE IF event.type = "invoice.payment_failed"
               THEN /\ subscriptions' =
                         [u \in Users |->
                             IF u = event.user_id /\ subscriptions[u].exists
                             THEN [subscriptions[u] EXCEPT !.status = "paused"]
                             ELSE subscriptions[u]]
                    /\ UNCHANGED <<luna_minute_packs, services_orders>>
               ELSE UNCHANGED <<subscriptions, luna_minute_packs, services_orders>>
    /\ UNCHANGED <<profiles, partner_profiles, luna_sessions,
                   luna_messages, proc, response, deduct_rpc, balance0,
                   onboarded, today, daily_horoscopes, scheduler_jobs, job_run,
                   today_req, raises, edge>>

\* ------------------------------------------- telegram: routers/telegram.py
\* the rows of telegram_connections with this chat_id
ConnectionsOf(c) ==
    {i \in 1..Len(telegram_connections) : telegram_connections[i].chat_id = c}

\* the chat has a connection row, and every row of it has this status
HasStatus(c, status) ==
    /\ ConnectionsOf(c) # {}
    /\ \A i \in ConnectionsOf(c) : telegram_connections[i].status = status

\* the users whose profile carries this link token, as the store selects them
ProfilesWithToken(token) == {u \in Users : telegram_link_token[u] = token}

Answer(c, text, token, reply) ==
    telegram_log' = Append(telegram_log,
        [chat_id |-> c, text |-> text, token |-> token, reply |-> reply])

\* telegram.py:250-273  a fresh random token is written to the caller's profile
GenerateLinkToken(u) ==
    /\ tokens_issued < MaxTokens
    /\ tokens_issued' = tokens_issued + 1
    /\ telegram_link_token' = [telegram_link_token EXCEPT ![u] = tokens_issued + 1]
    /\ UNCHANGED <<telegram_connections, telegram_update, telegram_log,
                   telegram_sent, telegram_push>>
    /\ UNCHANGED offBot

\* telegram.py:106-111  /start <token>: the connections of the chat are selected
StartSelectExisting(c, token) ==
    /\ telegram_update[c].pc = "idle"
    /\ Len(telegram_log) < MaxUpdates
    /\ token \in 1..MaxTokens
    /\ telegram_update' = [telegram_update EXCEPT ![c] =
           [pc |-> "find_profile", token |-> token,
            existing |-> (ConnectionsOf(c) # {}), user_id |-> "none"]]
    /\ UNCHANGED <<telegram_connections, telegram_link_token, tokens_issued,
                   telegram_log, telegram_sent, telegram_push>>
    /\ UNCHANGED offBot

\* telegram.py:113-121  the profile carrying the token is selected; none: the code
\* is refused and nothing is written
StartFindProfile(c) ==
    /\ telegram_update[c].pc = "find_profile"
    /\ LET profile == ProfilesWithToken(telegram_update[c].token) IN
       IF profile = {}
       THEN /\ Answer(c, "/start", telegram_update[c].token, "invalid")
            /\ telegram_update' = [telegram_update EXCEPT ![c] = NoUpdate]
       ELSE /\ \E u \in profile :
                telegram_update' = [telegram_update EXCEPT ![c].pc = "write",
                                                           ![c].user_id = u]
            /\ UNCHANGED telegram_log
    /\ UNCHANGED <<telegram_connections, telegram_link_token, tokens_issued,
                   telegram_sent, telegram_push>>
    /\ UNCHANGED offBot

\* telegram.py:123-140  the chat's rows are updated to the token's user and to
\* active, or a row is inserted when the select had found none
StartWriteConnection(c) ==
    /\ telegram_update[c].pc = "write"
    /\ telegram_connections' =
           IF telegram_update[c].existing
           THEN [i \in 1..Len(telegram_connections) |->
                    IF telegram_connections[i].chat_id = c
                    THEN [telegram_connections[i] EXCEPT
                             !.user_id = telegram_update[c].user_id,
                             !.status = "active"]
                    ELSE telegram_connections[i]]
           ELSE Append(telegram_connections,
                    [chat_id |-> c, user_id |-> telegram_update[c].user_id,
                     status |-> "active"])
    /\ telegram_update' = [telegram_update EXCEPT ![c].pc = "clear_token"]
    /\ UNCHANGED <<telegram_link_token, tokens_issued, telegram_log,
                   telegram_sent, telegram_push>>
    /\ UNCHANGED offBot

\* telegram.py:142-149  the token of the user's profile is set to null, whatever it
\* is by now, and the chat is told that the account is connected
StartClearToken(c) ==
    /\ telegram_update[c].pc = "clear_token"
    /\ telegram_link_token' =
           [telegram_link_token EXCEPT ![telegram_update[c].user_id] = 0]
    /\ Answer(c, "/start", telegram_update[c].token, "connected")
    /\ telegram_update' = [telegram_update EXCEPT ![c] = NoUpdate]
    /\ UNCHANGED <<telegram_connections, tokens_issued, telegram_sent, telegram_push>>
    /\ UNCHANGED offBot

\* telegram.py:106-111, 151-156  /start without token: the chat's connections are
\* read and a message is chosen; no row is written
TelegramStart(c) ==
    /\ telegram_update[c].pc = "idle"
    /\ Len(telegram_log) < MaxUpdates
    /\ Answer(c, "/start", 0,
              IF /\ ConnectionsOf(c) # {}
                 /\ telegram_connections[CHOOSE i \in ConnectionsOf(c) :
                        \A k \in ConnectionsOf(c) : i <= k].status = "active"
              THEN "already_connected" ELSE "welcome")
    /\ UNCHANGED <<telegram_connections, telegram_link_token, tokens_issued,
                   telegram_update, telegram_sent, telegram_push>>
    /\ UNCHANGED offBot

\* telegram.py:158-161  /stop: the chat's connections are set to paused
TelegramStop(c) ==
    /\ telegram_update[c].pc = "idle"
    /\ Len(telegram_log) < MaxUpdates
    /\ telegram_connections' =
           [i \in 1..Len(telegram_connections) |->
               IF telegram_connections[i].chat_id = c
               THEN [telegram_connections[i] EXCEPT !.status = "paused"]
               ELSE telegram_connections[i]]
    /\ Answer(c, "/stop", 0, "stop")
    /\ UNCHANGED <<telegram_link_token, tokens_issued, telegram_update,
                   telegram_sent, telegram_push>>
    /\ UNCHANGED offBot

\* scheduler.py:189-197  what the chat transport does with a posted message: it
\* accepts it, answers with an error status (the chat blocked the bot), or the
\* request raises (timeout)
TransportOutcomes == {"accepted", "rejected", "raised"}

\* scheduler.py:132-216  send-telegram: the active connections are selected; each
\* whose user has today's completed horoscope is posted it; unless the post
\* raised, the row is marked telegram_sent and the connection counted as sent
SendTelegram(outcome) ==
    /\ LET connections == {i \in 1..Len(telegram_connections) :
                              telegram_connections[i].status = "active"}
           served == {i \in connections :
                         HasCompletedRow(telegram_connections[i].user_id, today)}
           returned == {i \in served :
                           outcome[telegram_connections[i].chat_id] # "raised"}
           accepted == {i \in served :
                           outcome[telegram_connections[i].chat_id] = "accepted"}
       IN /\ telegram_push' = Append(telegram_push,
                 [date |-> today,
                  connections |-> {telegram_connections[i].chat_id : i \in connections},
                  sent |-> {telegram_connections[i].chat_id : i \in returned},
                  delivered |-> {telegram_connections[i].chat_id : i \in accepted},
                  delivered_to |-> {telegram_connections[i].user_id : i \in accepted}])
          /\ telegram_sent' = telegram_sent \cup
                 {<<telegram_connections[i].user_id, today>> : i \in returned}
    /\ UNCHANGED <<telegram_connections, telegram_link_token, tokens_issued,
                   telegram_update, telegram_log>>
    /\ UNCHANGED offBot

\* a send-telegram run in which the transport accepts every message, while fewer
\* than MaxPushes runs were made
SendTelegramPush ==
    /\ Len(telegram_push) < MaxPushes
    /\ SendTelegram([c \in Chats |-> "accepted"])

\* --------------------------------------------- iscrizioni: routers/clienti.py
\* the addresses submitted, as the characters of the string
Emails == {<<l, "@", d>> : l \in {"a", "A", "b"}, d \in {"x", "X"}}

LowerChar(ch) ==
    CASE ch = "A" -> "a"
      [] ch = "B" -> "b"
      [] ch = "X" -> "x"
      [] OTHER -> ch

\* str.lower().strip(): the addresses carry no surrounding white space
Lower(str) == [i \in 1..Len(str) |-> LowerChar(str[i])]

\* pydantic's EmailStr: the validated address keeps its local part and has its
\* domain in lower case
EmailStr(str) ==
    LET at == CHOOSE i \in 1..Len(str) : str[i] = "@" IN
    [i \in 1..Len(str) |-> IF i > at THEN LowerChar(str[i]) ELSE str[i]]

\* clienti.py:80  the rows whose email equals the address, as the store compares
ClientiWithEmail(email) == {i \in 1..Len(clienti) : clienti[i].email = email}

\* clienti.py:71-88  the body is validated and the rows with the address as
\* submitted are selected; a row found is the answer
IscriviLookup(p, email) ==
    /\ iscrizione[p].pc = "idle"
    /\ Len(clienti) < MaxClienti
    /\ LET existing == ClientiWithEmail(EmailStr(email)) IN
       IF existing # {}
       THEN /\ iscrizione_response' =
                   [ok |-> TRUE, nuovo |-> FALSE, code |-> 200,
                    cliente_id |-> CHOOSE i \in existing : \A k \in existing : i <= k]
            /\ UNCHANGED iscrizione
       ELSE /\ iscrizione' = [iscrizione EXCEPT ![p] =
                   [pc |-> "insert", email |-> EmailStr(email)]]
            /\ UNCHANGED iscrizione_response
    /\ UNCHANGED <<clienti, offClients>>

\* clienti.py:90-130  after the geolocation call the row is inserted with the
\* address in lower case; a store that holds the address already may refuse the
\* row, and the request fails
IscriviInsert(p, accepted) ==
    /\ iscrizione[p].pc = "insert"
    /\ accepted \/ ClientiWithEmail(Lower(iscrizione[p].email)) # {}
    /\ IF accepted
       THEN /\ clienti' = Append(clienti, [email |-> Lower(iscrizione[p].email),
                                           status |-> "trial"])
            /\ iscrizione_response' = [ok |-> TRUE, nuovo |-> TRUE, code |-> 200,
                                       cliente_id |-> Len(clienti) + 1]
       ELSE /\ UNCHANGED clienti
            /\ iscrizione_response' = [ok |-> FALSE, nuovo |-> FALSE, code |-> 500,
                                       cliente_id |-> 0]
    /\ iscrizione' = [iscrizione EXCEPT ![p] = [pc |-> "idle", email |-> <<>>]]
    /\ UNCHANGED offClients

\* --------------------------------------- the middleware: routers/auth.py
\* auth.py:19-25
PUBLIC_PATHS == {"/health", "/docs", "/openapi.json", "/api/webhooks/stripe",
                 "/api/telegram/webhook"}

\* scheduler.py:33, 132, 220 under the prefix of main.py:50
CronPaths == {"/api/scheduler/generate-daily", "/api/scheduler/send-telegram",
              "/api/scheduler/check-trials"}

\* the method of the route of each path requested
Routes ==
    [path \in PUBLIC_PATHS \cup CronPaths \cup {"/api/luna/balance", "/api/auth/login"} |->
        IF path \in {"/health", "/docs", "/openapi.json", "/api/luna/balance"}
        THEN "GET" ELSE "POST"]

\* the Authorization headers: none, another scheme, and bearer tokens that are
\* valid, expired, signed without exp claim, or not decodable
Authorizations == {"none", "Basic", "Bearer valid", "Bearer expired",
                   "Bearer noexp", "Bearer invalid"}

\* auth.py:43  auth_header.startswith("Bearer ")
HasBearerPrefix(authorization) == authorization \notin {"none", "Basic"}

\* the requests received; only the cron jobs' caller sends x-cron-secret
Requests ==
    {r \in [method : {"GET", "POST", "OPTIONS"}, path : DOMAIN Routes,
            authorization : Authorizations,
            x_cron_secret : {"missing", "wrong", "right"}] :
        r.path \notin CronPaths => r.x_cron_secret = "missing"}

Respond401(r) == [r EXCEPT !.pc = "done", !.status = 401]

Receive(r) ==
    /\ http.pc = "done"
    /\ http.n < MaxRequests
    /\ http' = [pc |-> "dispatch", n |-> http.n + 1, method |-> r.method,
                path |-> r.path, authorization |-> r.authorization,
                x_cron_secret |-> r.x_cron_secret, status |-> 0,
                user_id |-> "none", handler |-> "none", mark |-> 0]
    /\ UNCHANGED <<core, bot, clients, console>>

\* the exp claim of the decoded payload is not compared with the clock
AuthDispatch_noExpCheck(fault) ==
    /\ http.pc = "dispatch"
    /\ http' =
         IF http.method = "OPTIONS" \/ http.path \in PUBLIC_PATHS
         THEN [http EXCEPT !.pc = "route"]
         ELSE IF ~HasBearerPrefix(http.authorization) THEN Respond401(http)
         ELSE IF fault THEN [http EXCEPT !.pc = "done", !.status = 500]
         ELSE IF http.authorization \in {"Bearer expired", "Bearer invalid"}
         THEN Respond401(http)
         ELSE [http EXCEPT !.pc = "route", !.user_id = "u1"]
    /\ UNCHANGED <<core, bot, clients, console>>

\* auth.py:36-91  dispatch: OPTIONS and the public paths are passed on; otherwise
\* the bearer token is decoded and its exp compared with the clock (a payload
\* without exp counts as exp = 0); success attaches the identity and passes the
\* request on, a token error answers 401, any other exception 500
AuthDispatch(fault) ==
    /\ http.pc = "dispatch"
    /\ http' =
         IF http.method = "OPTIONS" \/ http.path \in PUBLIC_PATHS
         THEN [http EXCEPT !.pc = "route"]
         ELSE IF ~HasBearerPrefix(http.authorization) THEN Respond401(http)
         ELSE IF fault THEN [http EXCEPT !.pc = "done", !.status = 500]
         ELSE IF http.authorization \in {"Bearer expired", "Bearer invalid"}
         THEN Respond401(http)
         ELSE IF http.authorization = "Bearer noexp" THEN Respond401(http)
         ELSE [http EXCEPT !.pc = "route", !.user_id = "u1"]
    /\ UNCHANGED <<core, bot, clients, console>>

\* main.py:32-50  call_next: the CORS middleware answers a preflight (200, or 400
\* for a foreign origin); the router answers 405 when the path's route has
\* another method, and enters the handler otherwise
Route(cors) ==
    /\ http.pc = "route"
    /\ http' =
         IF http.method = "OPTIONS"
         THEN [http EXCEPT !.pc = "done", !.status = cors]
         ELSE IF Routes[http.path] # http.method
         THEN [http EXCEPT !.pc = "done", !.status = 405]
         ELSE IF http.path \in CronPaths
         THEN [http EXCEPT !.pc = "cron", !.handler = http.path]
         ELSE [http EXCEPT !.pc = "done", !.status = 200, !.handler = http.path]
    /\ UNCHANGED <<core, bot, clients, console>>

\* scheduler.py:26-29, 40, 138, 226  the first statement of each job
VerifyCronSecret ==
    /\ http.pc = "cron"
    /\ http' =
         IF http.x_cron_secret # "right" THEN Respond401(http)
         ELSE [http EXCEPT !.pc = "job",
                           !.mark = IF http.path = "/api/scheduler/send-telegram"
                                    THEN Len(telegram_push) ELSE Len(scheduler_jobs)]
    /\ UNCHANGED <<core, bot, clients, console>>

\* scheduler.py:42-52  generate-daily inserts its job row
CronGenerateDaily ==
    /\ http.pc = "job"
    /\ http.path = "/api/scheduler/generate-daily"
    /\ Len(scheduler_jobs) = http.mark
    /\ JobStart

\* scheduler.py:140-216  send-telegram
CronSendTelegram ==
    /\ http.pc = "job"
    /\ http.path = "/api/scheduler/send-telegram"
    /\ Len(telegram_push) = http.mark
    /\ SendTelegramPush

\* scheduler.py:128, 216  the job's handler returns
CronReturn ==
    /\ http.pc = "job"
    /\ \/ /\ http.path = "/api/scheduler/generate-daily"
          /\ Len(scheduler_jobs) > http.mark
          /\ scheduler_jobs[http.mark + 1].status = "completed"
       \/ /\ http.path = "/api/scheduler/send-telegram"
          /\ Len(telegram_push) > http.mark
    /\ http' = [http EXCEPT !.pc = "done", !.status = 200]
    /\ UNCHANGED <<core, bot, clients, console>>

\* scheduler.py:220-245  check-trials: the trials that have ended become expired
\* subscriptions of the free plan
CheckExpiredTrials ==
    /\ http.pc = "job"
    /\ http.path = "/api/scheduler/check-trials"
    /\ subscriptions' =
           [u \in Users |->
               IF subscriptions[u].status = "trial" /\ subscriptions[u].trial_end < today
               THEN [subscriptions[u] EXCEPT !.status = "expired", !.plan = "free"]
               ELSE subscriptions[u]]
    /\ http' = [http EXCEPT !.pc = "done", !.status = 200]
    /\ UNCHANGED <<profiles, partner_profiles, luna_sessions, luna_messages, proc,
                   response, deduct_rpc, balance0, onboarded, today, daily_horoscopes,
                   scheduler_jobs, job_run, today_req, raises, pay, bot, clients, console>>

\* ------------------------------------------------------------------- Next
Next ==
    \/ \E u \in Users : StartSession(u, NoPartner, FALSE)
    \/ \E u \in Users, sid \in 1..MaxSessions, e \in SessionElapsed : EndSession(u, sid, e)
    \/ \E u \in Users : GetLunaBalance(u)
    \/ \E p \in Procs, u \in Users, sid \in 1..MaxSessions : TurnSelectSession(p, u, sid)
    \/ \E p \in Procs : TurnCheckBalance(p)
    \/ \E p \in Procs : TurnPause(p)
    \/ \E p \in Procs, ok \in BOOLEAN : TurnCallModel(p, ok)
    \/ \E p \in Procs : TurnSaveUser(p)
    \/ \E p \in Procs, a \in {"audio_generated", "null"} : TurnSaveAssistant(p, a)
    \/ \E p \in Procs : TurnUpdateCount(p)
    \/ \E p \in Procs : TurnReturn(p)

Spec == Init /\ [][Next]_vars

\* The billing requests alone, with every elapsed time of Elapsed.
NextBilling ==
    \/ \E u \in Users : StartSession(u, NoPartner, FALSE)
    \/ \E u \in Users, sid \in 1..MaxSessions, e \in Elapsed : EndSession(u, sid, e)
    \/ \E u \in Users : GetLunaBalance(u)

SpecBilling == Init /\ [][NextBilling]_vars

\* One conversation at a time, with or without a partner, while the profile and
\* the partner are edited: the caller starts a session when none of theirs is active.
NextContext ==
    \/ \E x \in {NoPartner, "pa"} :
           /\ \A i \in SessionIds : luna_sessions[i].status # "active"
           /\ StartSession("u1", x, FALSE)
    \/ \E sid \in 1..MaxSessions : EndSession("u1", sid, 90000)
    \/ \E p \in Procs : TurnStep(p)
    \/ \E u \in Users : UpdateProfile(u)
    \/ \E u \in Users, c \in BOOLEAN : SaveBirthData(u, c)
    \/ \E u \in Users : UpdateLifeSituation(u)
    \/ \E u \in Users : UpdatePartner(u, "pa")
    \/ \E u \in Users : DeletePartner(u, "pa")

SpecContext == Init /\ [][NextContext]_vars

\* The daily batch: generate-daily requests, the clock, and users completing
\* their onboarding.
NextDaily ==
    \/ JobStart
    \/ \E j \in 1..MaxJobs : j \in JobIds /\ JobSelectUsers(j)
    \/ \E j \in 1..MaxJobs : j \in JobIds /\ JobCheckExisting(j)
    \/ \E j \in 1..MaxJobs, ok \in BOOLEAN : j \in JobIds /\ JobGenerate(j, ok)
    \/ \E j \in 1..MaxJobs, ok \in BOOLEAN : j \in JobIds /\ JobInsert(j, ok)
    \/ \E j \in 1..MaxJobs : j \in JobIds /\ JobFinish(j)
    \/ Midnight
    \/ \E u \in Users : u \notin onboarded /\ SaveBirthData(u, TRUE)

\* the batch is followed from one state of the subscriptions, which it never reads
InitDaily == Init /\ subscriptions["u1"].status = "active"

SpecDaily == InitDaily /\ [][NextDaily]_vars

\* a step of the run with job id j
JobStep(j) ==
    /\ j \in JobIds
    /\ \/ JobSelectUsers(j)
       \/ JobCheckExisting(j)
       \/ \E ok \in BOOLEAN : JobGenerate(j, ok)
       \/ \E ok \in BOOLEAN : JobInsert(j, ok)
       \/ JobFinish(j)

\* The runs of one calendar date, and users completing their onboarding.
NextRuns ==
    \/ JobStart
    \/ \E j \in 1..MaxJobs : JobStep(j)
    \/ \E u \in Users : u \notin onboarded /\ SaveBirthData(u, TRUE)

\* the handler of a run goes on whenever the call it awaits has returned
SpecDailyFair ==
    /\ InitDaily
    /\ [][NextRuns]_vars
    /\ \A j \in 1..MaxJobs : WF_vars(JobStep(j))

\* The daily batch together with the on-demand requests for today's horoscope.
NextHoroscope ==
    \/ JobStart
    \/ \E j \in 1..MaxJobs : j \in JobIds /\ JobSelectUsers(j)
    \/ \E j \in 1..MaxJobs : j \in JobIds /\ JobCheckExisting(j)
    \/ \E j \in 1..MaxJobs, ok \in BOOLEAN : j \in JobIds /\ JobGenerate(j, ok)
    \/ \E j \in 1..MaxJobs, ok \in BOOLEAN : j \in JobIds /\ JobInsert(j, ok)
    \/ \E j \in 1..MaxJobs : j \in JobIds /\ JobFinish(j)
    \/ Midnight
    \/ \E u \in Users : TodayRead(u)
    \/ \E u \in Users, ok \in BOOLEAN : TodayGenerate(u, ok)
    \/ \E u \in Users : TodayUpsert(u)

SpecHoroscope == InitDaily /\ [][NextHoroscope]_vars

\* Minute-pack purchases: checkouts, payments at the provider, webhook deliveries
\* with a valid signature (of events the provider signed) and without.
NextPay ==
    \/ \E u \in Users, pack_id \in {"15min", "60min"} : CreateLunaCheckout(u, pack_id)
    \/ \E k \in 1..MaxOrders : PayCheckout(k)
    \/ \E event \in SignedEvents : StripeWebhook(event, TRUE)
    \/ \E event \in AnyEvents : StripeWebhook(event, FALSE)

SpecPay == Init /\ [][NextPay]_vars

\* One large batch: BatchUsers eligible profiles, numbered in the order the store
\* returns them, after the run has inserted its job row and selected them. The
\* users for whom the model call or the insert raises, and the users who already
\* have today's row, are one of a few patterns.
BatchPatterns ==
    {[model |-> {}, insert |-> {}, rows |-> {}],
     [model |-> {10, 20, 30}, insert |-> {}, rows |-> {}],
     [model |-> {6}, insert |-> {5, BatchUsers}, rows |-> {1, 2, 7}],
     [model |-> 1..51, insert |-> {}, rows |-> {}],
     [model |-> 1..BatchUsers, insert |-> {}, rows |-> {}]}

InitBatch ==
    /\ InitLuna
    /\ subscriptions["u1"].status = "active"
    /\ onboarded = 1..BatchUsers
    /\ today = 1
    /\ \E pat \in BatchPatterns :
          /\ raises = [model |-> pat.model, insert |-> pat.insert]
          /\ daily_horoscopes = [k \in 1..Cardinality(pat.rows) |->
                 [user_id |-> CHOOSE u \in pat.rows :
                                  Cardinality({v \in pat.rows : v < u}) = k - 1,
                  horoscope_date |-> 1, status |-> "completed"]]
    /\ scheduler_jobs = <<[job_type |-> "daily_generation", job_date |-> 1,
                           status |-> "running", users_processed |-> 0,
                           users_success |-> 0, users_failed |-> 0,
                           error_log |-> <<>>]>>
    /\ job_run = <<[pc |-> "check_existing", today |-> 1,
                    users |-> [k \in 1..BatchUsers |-> k], i |-> 1,
                    processed |-> 0, success |-> 0, failed |-> 0, errors |-> <<>>,
                    called |-> {}, inserted |-> {}, skipped |-> {}, after |-> {}]>>

NextBatch ==
    \/ JobCheckExisting(1)
    \/ \E ok \in BOOLEAN :
          /\ job_run[1].pc = "generate"
          /\ ok = (job_run[1].users[job_run[1].i] \notin raises.model)
          /\ JobGenerate(1, ok)
    \/ \E ok \in BOOLEAN :
          /\ job_run[1].pc = "insert"
          /\ ok = (job_run[1].users[job_run[1].i] \notin raises.insert)
          /\ JobInsert(1, ok)
    \/ JobFinish(1)

SpecBatch == InitBatch /\ [][NextBatch]_vars

\* The bot: link tokens, /start with and without token, /stop, and the push job,
\* on a day for which the first user's horoscope is there.
InitTelegram ==
    /\ InitLuna
    /\ subscriptions["u1"].status = "active"
    /\ raises = [model |-> {}, insert |-> {}]
    /\ onboarded = {"u1"}
    /\ today = 1
    /\ daily_horoscopes = <<[user_id |-> "u1", horoscope_date |-> 1,
                             status |-> "completed"]>>
    /\ scheduler_jobs = <<>>
    /\ job_run = <<>>

NextTelegram ==
    \/ GenerateLinkToken("u1")
    \/ \E c \in Chats, token \in 1..MaxTokens : StartSelectExisting(c, token)
    \/ \E c \in Chats : StartFindProfile(c)
    \/ \E c \in Chats : StartWriteConnection(c)
    \/ \E c \in Chats : StartClearToken(c)
    \/ \E c \in Chats : TelegramStart(c)
    \/ \E c \in Chats : TelegramStop(c)
    \/ SendTelegramPush

SpecTelegram == InitTelegram /\ [][NextTelegram]_vars

\* ================================== claims, under Spec and SpecBilling
\* the ceiling of x / y for y > 0
CeilDiv(x, y) == 0 - ((0 - x) \div y)

OwnedBy(u, sid) == sid \in SessionIds /\ luna_sessions[sid].user_id = u
IsActiveFor(u, sid) == OwnedBy(u, sid) /\ luna_sessions[sid].status = "active"
InFlight(p) == proc[p].pc # "idle"

\* C1: an end() that finds the caller's session after an elapsed time of D seconds
\* charges max(1, ceil(D/60)) minutes, for positive, zero and negative D, and that one
\* value is the argument of the debit, the row's duration_minutes and
\* minutes_charged, and the two fields of the response.
C1_EndChargesCeilMinutes ==
    [][\A u \in Users, sid \in 1..MaxSessions, e \in Elapsed :
          (EndSession(u, sid, e) /\ OwnedBy(u, sid)) =>
              LET c == Max(1, CeilDiv(e, 60000)) IN
              /\ deduct_rpc'.p_minutes = c
              /\ deduct_rpc'.p_user_id = u
              /\ luna_sessions'[sid].duration_minutes = c
              /\ luna_sessions'[sid].minutes_charged = c
              /\ response'.duration_minutes = c
              /\ response'.minutes_charged = c]_vars

\* an end() after 125 s has charged 3 minutes: row, debit, response and balance agree
C1_Witness ==
    /\ response.op = "end" /\ response.code = 200 /\ response.minutes_charged = 3
    /\ deduct_rpc.p_minutes = 3
    /\ \E i \in SessionIds : /\ luna_sessions[i].status = "ended"
                            /\ luna_sessions[i].duration_minutes = 3
                            /\ luna_sessions[i].minutes_charged = 3
    /\ Balance("u1") = balance0["u1"] - 3

\* C2 (as claimed): a session that is paused or ended keeps its status in every step.
C2_NoTransitionLeavesPausedOrEnded ==
    [][\A sid \in SessionIds :
          luna_sessions[sid].status \in {"paused", "ended"} =>
              luna_sessions'[sid].status = luna_sessions[sid].status]_vars

\* C3: a turn() that arrives for a session that is not the caller's active session
\* answers 404 and is over at once: no table changes, no debit, the request does not
\* go on to the balance check, the model call or any insert.
C3_TurnOnInactiveSessionFails ==
    [][\A p \in Procs, u \in Users, sid \in 1..MaxSessions :
          (TurnSelectSession(p, u, sid) /\ ~IsActiveFor(u, sid)) =>
              /\ response'.op = "turn" /\ response'.code = 404
              /\ UNCHANGED <<tables, deduct_rpc>>
              /\ ~InFlight(p)']_vars

\* a turn was refused with 404 while the caller's sessions are ended or paused
C3_Witness ==
    /\ response.op = "turn" /\ response.code = 404
    /\ \E i, j \in SessionIds : /\ luna_sessions[i].status = "ended"
                               /\ luna_sessions[j].status = "paused"
    /\ \A p \in Procs : ~InFlight(p)

\* C4: a turn that reads a balance below 1 (or no subscription) for its active session
\* goes to the pause and nowhere else; the pause writes status paused and reason
\* time_expired, answers 402, stores no message and ends the request; a session that
\* is not active never becomes active again, and a later turn on it answers 404 and
\* leaves the session rows alone.
C4_EmptyBalancePausesAndRejects ==
    [][/\ \A p \in Procs :
             (TurnCheckBalance(p) /\ (~subscriptions[proc[p].user_id].exists
                                       \/ Balance(proc[p].user_id) < 1)) =>
                 (proc'[p].pc = "pause" /\ UNCHANGED <<tables, response>>)
       /\ \A p \in Procs :
             TurnPause(p) =>
                 /\ luna_sessions'[proc[p].session_id].status = "paused"
                 /\ luna_sessions'[proc[p].session_id].ended_reason = "time_expired"
                 /\ response'.op = "turn" /\ response'.code = 402
                 /\ UNCHANGED <<luna_messages, subscriptions>>
                 /\ ~InFlight(p)'
       /\ \A sid \in SessionIds :
             luna_sessions[sid].status # "active" => luna_sessions'[sid].status # "active"
       /\ \A p \in Procs, u \in Users, sid \in SessionIds :
             (TurnSelectSession(p, u, sid) /\ luna_sessions[sid].status = "paused") =>
                 (response'.code = 404 /\ UNCHANGED luna_sessions /\ ~InFlight(p)')]_vars

\* a session was paused for an empty balance and a later turn was answered 404
C4_Witness ==
    /\ \E sid \in SessionIds : /\ luna_sessions[sid].status = "paused"
                              /\ luna_sessions[sid].ended_reason = "time_expired"
                              /\ Balance(luna_sessions[sid].user_id) < 1
    /\ response.op = "turn" /\ response.code = 404

\* C5: start() answers 403 without a subscription row and 402 with a balance below 1,
\* and creates no row in either case; otherwise it appends exactly one row, active and
\* owned by the caller, and returns the balance it read, whatever the subscription's
\* status.
C5_StartPreconditions ==
    [][\A u \in Users, partner \in {NoPartner, "pa", "pb"}, voice \in BOOLEAN :
          StartSession(u, partner, voice) =>
              IF ~subscriptions[u].exists
              THEN response'.code = 403 /\ luna_sessions' = luna_sessions
              ELSE IF subscriptions[u].luna_minutes_balance < 1
              THEN response'.code = 402 /\ luna_sessions' = luna_sessions
              ELSE /\ Len(luna_sessions') = Len(luna_sessions) + 1
                   /\ SubSeq(luna_sessions', 1, Len(luna_sessions)) = luna_sessions
                   /\ luna_sessions'[Len(luna_sessions')].status = "active"
                   /\ luna_sessions'[Len(luna_sessions')].user_id = u
                   /\ response'.code = 200
                   /\ response'.session_id = Len(luna_sessions')
                   /\ response'.minutes = subscriptions[u].luna_minutes_balance]_vars

\* a session was started on an expired subscription and start() returned its balance
C5_Witness ==
    /\ response.op = "start" /\ response.code = 200 /\ response.minutes = 1
    /\ subscriptions["u1"].status = "expired"
    /\ \E sid \in SessionIds : luna_sessions[sid].status = "active"

\* C6: a caller with one session, ended once, and no other debit has the balance
\* they began with minus the session's minutes_charged; the end() response reports
\* that balance, and its duration_minutes and minutes_charged are the row's.
C6_OneSessionBilledOnce ==
    \A u \in Users :
        LET mine == {sid \in SessionIds : luna_sessions[sid].user_id = u} IN
        (Cardinality(mine) = 1 /\ deduct_rpc.calls = 1 /\ deduct_rpc.p_user_id = u) =>
            \A sid \in mine :
                /\ Balance(u) = balance0[u] - luna_sessions[sid].minutes_charged
                /\ (response.op = "end" /\ response.code = 200) =>
                       /\ response.minutes = balance0[u] - response.minutes_charged
                       /\ response.minutes_charged = luna_sessions[sid].minutes_charged
                       /\ response.duration_minutes = luna_sessions[sid].duration_minutes

\* scenario B: balance 15, one session, three turns, ended with 2 minutes charged:
\* the response says 2, 2 and 13 and the stored balance is 13
C6_Witness ==
    /\ balance0["u1"] = 15
    /\ Len(luna_sessions) = 1 /\ luna_sessions[1].messages_count = 3
    /\ Len(luna_messages) = 6
    /\ luna_sessions[1].status = "ended" /\ deduct_rpc.calls = 1
    /\ response.op = "end" /\ response.duration_minutes = 2
    /\ response.minutes_charged = 2 /\ response.minutes = 13
    /\ Balance("u1") = 13

\* C7 (as claimed): the stored minute balance, which start, turn, end and the balance
\* query read, is never negative.
C7_BalanceNeverNegative ==
    /\ \A u \in Users : subscriptions[u].exists => Balance(u) >= 0
    /\ response.minutes >= 0

\* C8: no step of a turn changes the subscriptions; the answer of a successful turn
\* carries the balance stored when it answers; and while a turn is in flight the
\* stored balance departs from the one the turn read only in a step of end().
C8_TurnLeavesBalance ==
    [][\A p \in Procs :
          /\ TurnStep(p) => UNCHANGED subscriptions
          /\ TurnReturn(p) =>
                 /\ response'.op = "turn" /\ response'.code = 200
                 /\ response'.minutes = subscriptions'[proc[p].user_id].luna_minutes_balance
          /\ (/\ proc[p].pc \in {"call_model", "save_user", "save_assistant",
                                 "update_count", "return"}
              /\ subscriptions' # subscriptions) =>
                 \E u \in Users, sid \in SessionIds, e \in Elapsed : EndSession(u, sid, e)]_vars

\* a turn is about to answer and the balance it read at its start is no longer the
\* stored one
C8_Witness ==
    \E p \in Procs : /\ proc[p].pc = "return"
                     /\ proc[p].bal # Balance(proc[p].user_id)

\* ============================================== claims, under SpecContext
\* C9: the grounding-context snapshot of a session is written once, by start():
\* a step that adds a session row stores the context built from the data of that
\* moment; no step (turn, end, profile, birth-data, life-situation or partner
\* edit) changes the context_snapshot of an existing row; and every turn that
\* reaches the model builds its system prompt from the snapshot the row holds.
C9_SnapshotWrittenOnce ==
    [][/\ \A sid \in SessionIds :
            /\ sid \in 1..Len(luna_sessions')
            /\ luna_sessions'[sid].context_snapshot = luna_sessions[sid].context_snapshot
       /\ \A sid \in (1..Len(luna_sessions')) \ SessionIds :
            luna_sessions'[sid].context_snapshot =
                BuildUserContext(luna_sessions'[sid].user_id, luna_sessions'[sid].partner_id)
       /\ \A p \in Procs :
            TurnCallModel(p, TRUE) =>
                proc'[p].system =
                    SystemPrompt(luna_sessions'[proc[p].session_id].context_snapshot)]_vars

\* a later turn of a session has built its prompt after the profile and the partner
\* behind the session's snapshot were edited
C9_Witness ==
    \E p \in Procs, sid \in SessionIds :
        /\ proc[p].pc = "save_user" /\ proc[p].session_id = sid
        /\ luna_sessions[sid].messages_count >= 1
        /\ luna_sessions[sid].context_snapshot.partner = "pa"
        /\ luna_sessions[sid].context_snapshot.profile # profiles[luna_sessions[sid].user_id]
        /\ proc[p].system = SystemPrompt(luna_sessions[sid].context_snapshot)

\* ================================================ claims, under SpecDaily
JobsOfDate(d) == {j \in JobIds : scheduler_jobs[j].job_date = d}

\* the runs of date d came one after the other: each started after every earlier
\* run of that date had completed
Sequential(d) ==
    \A j1 \in JobsOfDate(d), j2 \in JobsOfDate(d) :
        j1 < j2 => j1 \in job_run[j2].after

RowsOf(u, d) ==
    Cardinality({i \in 1..Len(daily_horoscopes) :
        daily_horoscopes[i].user_id = u /\ daily_horoscopes[i].horoscope_date = d})

\* C10: when the generate-daily runs of a calendar date come one after the other,
\* there is exactly one DailyHoroscope row of that date for every user an earlier
\* run generated and inserted one for (and never more than one for any user); a
\* later run makes no model call and no insert for such a user, and once it has
\* finished it has found the existing row and its job row counts every selected
\* user as processed and the skipped user among the successful ones.
C10_SecondRunSkips ==
    \A d \in 1..MaxDate :
        Sequential(d) =>
            /\ \A u \in Users :
                 /\ RowsOf(u, d) <= 1
                 /\ (\E j \in JobsOfDate(d) : u \in job_run[j].inserted) => RowsOf(u, d) = 1
            /\ \A j1 \in JobsOfDate(d), j2 \in JobsOfDate(d) :
                 j1 < j2 =>
                     \A u \in job_run[j1].inserted :
                         /\ u \notin job_run[j2].called
                         /\ u \notin job_run[j2].inserted
                         /\ job_run[j2].pc = "done" =>
                              /\ u \in job_run[j2].skipped
                              /\ scheduler_jobs[j2].users_processed = Len(job_run[j2].users)
                              /\ scheduler_jobs[j2].users_success =
                                     Cardinality(job_run[j2].skipped \cup job_run[j2].inserted)
                              /\ scheduler_jobs[j2].users_processed =
                                     scheduler_jobs[j2].users_success
                                         + scheduler_jobs[j2].users_failed

\* two finished runs of one date, the second started after the first had completed
\* and skipped the user the first had generated for
C10_Witness ==
    /\ Len(scheduler_jobs) >= 2
    /\ scheduler_jobs[1].job_date = scheduler_jobs[2].job_date
    /\ 1 \in job_run[2].after
    /\ job_run[2].pc = "done"
    /\ "u1" \in job_run[1].inserted
    /\ "u1" \in job_run[2].skipped
    /\ scheduler_jobs[2].users_success >= 1
    /\ RowsOf("u1", scheduler_jobs[1].job_date) = 1

\* ============================================ claims, under SpecHoroscope
\* C11: in every reachable state there is at most one daily_horoscopes row per
\* (user, calendar date), whatever the interleaving of generate-daily runs and
\* on-demand requests for today's horoscope.
C11_AtMostOneRowPerUserAndDate ==
    \A u \in Users, d \in 1..MaxDate : RowsOf(u, d) <= 1

\* ================================================ claims, under SpecBatch
\* C12: when a generate-daily run has finished, its job row holds users_processed
\* equal to the number of users selected, users_processed = users_success +
\* users_failed, users_failed equal to the number of users for whom the model was
\* called and no row was inserted (the generation or the insert raised), and an
\* error log of exactly min(users_failed, 50) entries.
C12_JobCounters ==
    \A j \in JobIds :
        scheduler_jobs[j].status = "completed" =>
            /\ scheduler_jobs[j].users_processed = Len(job_run[j].users)
            /\ scheduler_jobs[j].users_processed =
                   scheduler_jobs[j].users_success + scheduler_jobs[j].users_failed
            /\ scheduler_jobs[j].users_failed =
                   Cardinality(job_run[j].called \ job_run[j].inserted)
            /\ Len(scheduler_jobs[j].error_log) =
                   (IF scheduler_jobs[j].users_failed <= 50
                    THEN scheduler_jobs[j].users_failed ELSE 50)

\* scenario C: 100 eligible users, the model call failed for 3 of them
C12_Witness ==
    /\ scheduler_jobs[1].status = "completed"
    /\ Len(job_run[1].users) = 100
    /\ raises.model = {10, 20, 30} /\ raises.insert = {}
    /\ scheduler_jobs[1].users_processed = 100
    /\ scheduler_jobs[1].users_success = 97
    /\ scheduler_jobs[1].users_failed = 3
    /\ Len(scheduler_jobs[1].error_log) = 3

\* ============================================ claims, under SpecDailyFair
\* C13: a run whose job row is running eventually sets it to completed; the run
\* keeps its list of selected users and visits them one by one in list order,
\* each visit counting its user as processed after looking for his row or calling
\* the model for him, whether or not earlier calls or inserts failed; it leaves the
\* loop only after the last user.
C13_RunCompletes ==
    /\ \A j \in 1..MaxJobs :
           (j \in JobIds /\ scheduler_jobs[j].status = "running")
               ~> (j \in JobIds /\ scheduler_jobs[j].status = "completed")
    /\ [][\A j \in JobIds :
             LET r == job_run[j]
                 q == job_run'[j]
             IN /\ r.pc # "select_users" => q.users = r.users
                /\ \/ q.i = r.i /\ q.processed = r.processed
                   \/ /\ q.i = r.i + 1
                      /\ r.i <= Len(r.users)
                      /\ q.processed = r.processed + 1
                      /\ r.users[r.i] \in q.skipped \cup q.called
                /\ (q.pc = "finish" /\ r.pc # "finish") => r.i = Len(r.users) + 1
                /\ (q.pc = "done" /\ r.pc # "done") => r.processed = Len(r.users)]_vars

\* a finished run over two users: the model call or the insert failed for the
\* first, and the second got his row
C13_Witness ==
    \E j \in JobIds :
        /\ scheduler_jobs[j].status = "completed"
        /\ job_run[j].users = <<"u1", "u2">>
        /\ "u1" \in job_run[j].called \ job_run[j].inserted
        /\ "u2" \in job_run[j].inserted
        /\ scheduler_jobs[j].users_failed = 1

\* ================================================== claims, under SpecPay
\* C14: a webhook whose signature does not verify answers 400 and changes no row:
\* minute-pack orders, service orders, subscriptions (status and balance) and every
\* other table stay as they were.
C14_BadSignatureChangesNothing ==
    [][\A event \in AnyEvents :
          StripeWebhook(event, FALSE) =>
              /\ webhook_response' = 400
              /\ UNCHANGED <<luna_minute_packs, services_orders, subscriptions, stripe,
                             tables, daily_horoscopes, scheduler_jobs>>]_vars

\* a delivery without valid signature was refused while a pack order was pending
C14_Witness ==
    /\ webhook_response = 400
    /\ \E k \in 1..Len(luna_minute_packs) :
           /\ luna_minute_packs[k].order_status = "pending"
           /\ luna_minute_packs[k].user_id = "u1"
    /\ Balance("u1") = balance0["u1"]
    /\ services_orders[1].order_status = "pending"

RECURSIVE PaidMinutes(_, _)
\* the minutes of the paid pack orders of u among the first n orders
PaidMinutes(u, n) ==
    IF n = 0 THEN 0
    ELSE PaidMinutes(u, n - 1)
         + (IF /\ luna_minute_packs[n].user_id = u
               /\ luna_minute_packs[n].order_status = "paid"
            THEN luna_minute_packs[n].minutes_purchased ELSE 0)

\* C15: processing the checkout-completed webhook of a minute pack sets the order
\* to paid and credits the buyer exactly the pack's minutes, once, however often
\* the event is delivered: the balance is the initial one plus the minutes of the
\* buyer's paid orders, and an order is paid only if its checkout was paid.
C15_PackCreditedOnce ==
    /\ \A k \in 1..Len(luna_minute_packs) :
           luna_minute_packs[k].order_status = "paid" => k \in stripe.paid
    /\ \A u \in Users :
           subscriptions[u].exists =>
               Balance(u) = balance0[u] + PaidMinutes(u, Len(luna_minute_packs))

\* The iscrizioni of two clients.
NextClienti ==
    \/ \E p \in Browsers, email \in Emails : IscriviLookup(p, email)
    \/ \E p \in Browsers, accepted \in BOOLEAN : IscriviInsert(p, accepted)

SpecClienti == Init /\ [][NextClienti]_vars

\* The requests that pass the middleware, one after the other, and the cron jobs
\* behind it; the second user is on a trial that has ended, or has not.
InitGate ==
    /\ \E trial_end \in {0, MaxDate} :
           subscriptions =
               [u \in Users |->
                   IF u = "u1"
                   THEN [exists |-> TRUE, luna_minutes_balance |-> 15, status |-> "active"]
                   ELSE [exists |-> TRUE, luna_minutes_balance |-> 0, status |-> "trial",
                         plan |-> "premium", trial_end |-> trial_end]]
    /\ profiles = [u \in Users |-> 0]
    /\ partner_profiles = [x \in Partners |->
           [user_id |-> PartnerOwner[x], rev |-> 0, is_active |-> TRUE]]
    /\ luna_sessions = <<>>
    /\ luna_messages = <<>>
    /\ proc = [p \in TurnProcs |-> Idle]
    /\ response = NoResponse
    /\ deduct_rpc = [calls |-> 0, p_user_id |-> "none", p_minutes |-> 0]
    /\ balance0 = [u \in Users |-> subscriptions[u].luna_minutes_balance]
    /\ today_req = [u \in Users |-> [pc |-> "idle", today |-> 0]]
    /\ luna_minute_packs = <<>>
    /\ services_orders = <<>>
    /\ stripe = [paid |-> {}, deliveries |-> 0]
    /\ webhook_response = 0
    /\ telegram_connections = <<[chat_id |-> "c1", user_id |-> "u1", status |-> "active"]>>
    /\ telegram_link_token = [u \in Users |-> 0]
    /\ tokens_issued = 0
    /\ telegram_update = [c \in Chats |-> NoUpdate]
    /\ telegram_log = <<>>
    /\ telegram_sent = {}
    /\ telegram_push = <<>>
    /\ clienti = <<>>
    /\ iscrizione = [p \in Browsers |-> [pc |-> "idle", email |-> <<>>]]
    /\ iscrizione_response = [ok |-> FALSE, nuovo |-> FALSE, cliente_id |-> 0, code |-> 0]
    /\ http = NoRequest
    /\ admin = NoAdminRequest
    /\ raises = [model |-> {}, insert |-> {}]
    /\ onboarded = {"u1"}
    /\ today = 1
    /\ daily_horoscopes = <<>>
    /\ scheduler_jobs = <<>>
    /\ job_run = <<>>

NextGate ==
    \/ \E r \in Requests : Receive(r)
    \/ \E fault \in BOOLEAN : AuthDispatch(fault)
    \/ \E cors \in {200, 400, 405} : Route(cors)
    \/ VerifyCronSecret
    \/ CronGenerateDaily
    \/ \E j \in 1..MaxJobs : JobStep(j)
    \/ CronSendTelegram
    \/ CronReturn
    \/ CheckExpiredTrials

SpecGate == InitGate /\ [][NextGate]_vars

\* Deliveries of signed events of every kind, to a store that holds a subscription
\* of each user.
NextEvents ==
    \/ \E u \in Users : CreateLunaCheckout(u, "15min")
    \/ \E k \in 1..MaxOrders : PayCheckout(k)
    \/ \E event \in SignedEvents \cup DispatchEvents : StripeWebhook(event, TRUE)

SpecEvents == InitGate /\ [][NextEvents]_vars

\* ================================== claims, under SpecTelegram
\* the chats that a /start carrying this token has connected
ConnectedThrough(token) ==
    {c \in Chats : \E i \in 1..Len(telegram_log) :
        /\ telegram_log[i].chat_id = c
        /\ telegram_log[i].token = token
        /\ telegram_log[i].reply = "connected"}

\* C16: a link token authorizes one connection: however the /start <token>
\* updates of different chats carrying the same token interleave, at most one chat
\* is connected to the profile through that token.
C16_TokenConnectsOneChat ==
    \A token \in 1..MaxTokens : Cardinality(ConnectedThrough(token)) <= 1

\* the last update of the chat that the bot has answered
LastAnswered(c) ==
    LET mine == {i \in 1..Len(telegram_log) : telegram_log[i].chat_id = c} IN
    IF mine = {} THEN [chat_id |-> c, text |-> "none", token |-> 0, reply |-> "none"]
    ELSE telegram_log[CHOOSE i \in mine : \A k \in mine : k <= i]

\* C20: a /start of a chat that had paused its notifications with /stop sets the
\* chat's connection to active again, and a send-telegram run selects every chat
\* whose last answered update is such a /start.
C20_StartReactivatesPaused ==
    [][/\ \A c \in Chats :
             (/\ HasStatus(c, "paused")
              /\ LastAnswered(c).text = "/stop"
              /\ TelegramStart(c)) => HasStatus(c, "active")'
       /\ SendTelegramPush =>
             \A c \in Chats :
                 (/\ ConnectionsOf(c) # {}
                  /\ LastAnswered(c).text = "/start"
                  /\ LastAnswered(c).reply # "invalid"
                  /\ telegram_update[c].pc = "idle")
                 => c \in telegram_push'[Len(telegram_push')].connections]_vars

\* ================================== claims, under SpecClienti
\* the rows whose email is the address, letter case apart
SameAddress(email) ==
    {i \in 1..Len(clienti) : Lower(clienti[i].email) = Lower(email)}

\* C19: an iscrizione whose address is already in clienti, in the same or in
\* another letter case, inserts no row and answers ok with nuovo = false and the
\* id of the existing row.
C19_SecondIscrizioneIsNoop ==
    [][\A p \in Browsers, email \in Emails :
          (IscriviLookup(p, email) /\ SameAddress(email) # {}) =>
              /\ iscrizione_response'.ok
              /\ ~iscrizione_response'.nuovo
              /\ iscrizione_response'.cliente_id \in SameAddress(email)
              /\ iscrizione'[p].pc = "idle"
              /\ clienti' = clienti]_vars

\* ================================== claims, under SpecGate
\* what the middleware does with the request it holds, given which methods bypass
\* the verification: a request on the allow-list, of a bypassing method, or
\* with a bearer token that verifies is passed on, with the identity attached
\* only in the last case; any other request is answered at once, without identity
\* and without handler: 401, or 500 after an unexpected exception
GateContract(bypassing) ==
    /\ \A fault \in BOOLEAN :
          AuthDispatch(fault) =>
              IF \/ http.path \in PUBLIC_PATHS
                 \/ http.method \in bypassing
                 \/ http.authorization = "Bearer valid" /\ ~fault
              THEN /\ http'.pc = "route"
                   /\ http'.user_id # "none" =>
                          http.authorization = "Bearer valid" /\ ~fault
              ELSE /\ http'.pc = "done"
                   /\ http'.handler = "none"
                   /\ http'.user_id = "none"
                   /\ http'.status = IF HasBearerPrefix(http.authorization) /\ fault
                                     THEN 500 ELSE 401
    /\ (http'.handler # "none" /\ http.handler = "none") =>
           /\ http.pc = "route"
           /\ http.path \in PUBLIC_PATHS \/ http.user_id # "none"

\* C17 as claimed: only the allow-list bypasses the verification; every other
\* request runs its handler only after the bearer token has verified, and is
\* otherwise answered 401 (no Bearer prefix, expired or invalid token) or 500
\* (unexpected exception) with no handler invoked and no identity attached.
C17_OnlyAllowListBypasses == [][GateContract({})]_vars

\* C17, amended: the allow-list and every OPTIONS request bypass the verification;
\* an OPTIONS request off the allow-list reaches no handler and gets no identity.
\* Every other request runs its handler only after the bearer token has verified
\* and is otherwise answered 401 or 500, with no handler and no identity.
C17_AllowListAndOptionsBypass == [][GateContract({"OPTIONS"})]_vars

\* a GET of a protected path with an expired token was answered 401 after an
\* OPTIONS request had been passed on and answered by the layers below
C17_Witness ==
    /\ http.pc = "done" /\ http.status = 401 /\ http.method = "GET"
    /\ http.path = "/api/luna/balance" /\ http.authorization = "Bearer expired"
    /\ http.handler = "none" /\ http.user_id = "none" /\ http.n = 2

\* C18: a cron job is authenticated by x-cron-secret alone: a POST of a job's path
\* with the right secret runs the job whatever other credential it carries, and a
\* request with a missing or wrong secret is answered 401 by the job before any
\* store read or write: no step of such a request changes a table.
C18_CronSecretAlone ==
    /\ [](/\ http.pc = "done"
          /\ http.path \in CronPaths
          /\ http.method = "POST"
          /\ http.x_cron_secret = "right"
          => http.status = 200)
    /\ [][/\ (VerifyCronSecret /\ http.x_cron_secret # "right") =>
                http'.pc = "done" /\ http'.status = 401
          /\ (http.path \in CronPaths /\ http.x_cron_secret # "right") =>
                UNCHANGED <<tables, scheduler_jobs, daily_horoscopes, telegram_push,
                            telegram_sent, telegram_connections>>]_vars

\* ================================== claims, under SpecEvents
\* every row but the subscriptions is left as it was
OnlySubscriptionsMayChange ==
    UNCHANGED <<luna_minute_packs, services_orders, profiles, partner_profiles,
                luna_sessions, luna_messages, daily_horoscopes, scheduler_jobs,
                telegram_connections, clienti>>

C25_ForeignSessionNotFound ==
    [][\A u \in Users, sid \in SessionIds :
          luna_sessions[sid].user_id # u =>
              /\ \A p \in Procs :
                    TurnSelectSession(p, u, sid) =>
                        /\ response'.op = "turn" /\ response'.code = 404
                        /\ UNCHANGED <<tables, deduct_rpc>>
                        /\ ~InFlight(p)'
              /\ \A e \in SessionElapsed :
                    EndSession(u, sid, e) =>
                        /\ response'.op = "end" /\ response'.code = 404
                        /\ UNCHANGED <<tables, deduct_rpc, proc>>]_vars

\* every session id in range names an active session of u1 and an end request was
\* answered 404: the request was that of the other caller
C25_Witness ==
    /\ Len(luna_sessions) = MaxSessions
    /\ \A sid \in SessionIds : /\ luna_sessions[sid].user_id = "u1"
                               /\ luna_sessions[sid].status = "active"
    /\ response.op = "end" /\ response.code = 404
    /\ \A u \in Users : Balance(u) = balance0[u]

\* ------------------------------------------------- sessions about a partner
\* one caller starts sessions with no partner, with the own partner or with the
\* partner of the other user, and ends them; the owner edits or deletes the
\* partner
NextPartner ==
    \/ \E x \in Partners \cup {NoPartner}, v \in BOOLEAN : StartSession("u1", x, v)
    \/ \E sid \in 1..MaxSessions : EndSession("u1", sid, 90000)
    \/ \E u \in Users : UpdatePartner(u, "pa")
    \/ \E u \in Users : DeletePartner(u, "pa")

SpecPartner == Init /\ [][NextPartner]_vars

\* ---------------------------------------------------- claims, under SpecPartner
\* the partner profile is active and belongs to the user
OwnActivePartner(u, x) ==
    /\ x \in DOMAIN partner_profiles
    /\ partner_profiles[x].user_id = u
    /\ partner_profiles[x].is_active

\* C26: a session created by start references a partner, and holds a partner's
\* data in its context snapshot, only if that partner profile is active and owned
\* by the session's own caller.
C26_PartnerIsCallersOwn ==
    [][\A x \in Partners \cup {NoPartner}, v \in BOOLEAN :
          (StartSession("u1", x, v) /\ Len(luna_sessions') > Len(luna_sessions)) =>
              LET row == luna_sessions'[Len(luna_sessions')] IN
              /\ row.partner_id # NoPartner => OwnActivePartner(row.user_id, row.partner_id)
              /\ row.context_snapshot.partner # NoPartner =>
                     OwnActivePartner(row.user_id, row.context_snapshot.partner)]_vars

\* the active sessions of a user
ActiveSessions(u) ==
    {sid \in SessionIds : luna_sessions[sid].user_id = u
                          /\ luna_sessions[sid].status = "active"}

\* C27: a caller has at most one session in state active at any time: a start
\* while the caller has an active session creates no second active session.
C27_OneActiveSessionPerCaller ==
    \A u \in Users : Cardinality(ActiveSessions(u)) <= 1

\* ------------------------------------------- two send_message requests in flight
\* one caller opens one session, sends messages from two request slots and ends
\* the session; the handlers interleave at the store calls and at the awaited
\* voice synthesis
NextTurns ==
    \/ /\ Len(luna_sessions) = 0
       /\ \E v \in BOOLEAN : StartSession("u1", NoPartner, v)
    \/ \E p \in TurnProcs : TurnStep(p)
    \/ \E elapsed \in SessionElapsed : EndSession("u1", 1, elapsed)

SpecTurns == Init /\ [][NextTurns]_vars

\* ------------------------------------------------------ claims, under SpecTurns
\* the messages of a session, in creation order
MessagesOf(sid) ==
    SelectSeq(luna_messages, LAMBDA msg : msg.session_id = sid)

\* the assistant messages stored for a session: the turns that completed
CompletedTurns(sid) ==
    Len(SelectSeq(MessagesOf(sid), LAMBDA msg : msg.role = "assistant"))

\* no send_message request is between its first and its last store call
NoTurnInFlight == \A p \in TurnProcs : proc[p].pc \in {"idle", "return"}

\* C22: whenever no turn is in flight on a session, its messages_count equals the
\* number of assistant messages stored for it, also after two turns that were in
\* flight at the same time.
C22_CountEqualsCompletedTurns ==
    NoTurnInFlight =>
        \A sid \in SessionIds : luna_sessions[sid].messages_count = CompletedTurns(sid)

\* C24: a session whose status is ended stays ended under every interleaving: a
\* turn that selected the session as active before a concurrent end completed
\* does not write status paused over the ended row.
C24_EndedStaysEnded ==
    [][\A sid \in SessionIds :
          luna_sessions[sid].status = "ended" => luna_sessions'[sid].status = "ended"]_vars

\* C28: the stored messages of a session, in creation order, alternate user,
\* assistant, user, assistant, starting with a user message, under every
\* interleaving of the message requests on the session; a request whose model
\* call fails stores no message.
C28_MessagesAlternate ==
    \A sid \in SessionIds :
        \A i \in 1..Len(MessagesOf(sid)) :
            MessagesOf(sid)[i].role = IF i % 2 = 1 THEN "user" ELSE "assistant"

\* --------------------------------------------- repeated end_session requests
\* one caller opens one session; either user sends end requests for it, the
\* owner up to MaxRepeats of them, and reads the balance
NextEnds ==
    \/ /\ Len(luna_sessions) = 0
       /\ \E v \in BOOLEAN : StartSession("u1", NoPartner, v)
    \/ /\ deduct_rpc.calls < MaxRepeats
       /\ \E u \in Users, elapsed \in SessionElapsed : EndSessionCall(u, 1, elapsed)
    \/ \E u \in Users : GetLunaBalance(u)

SpecEnds == Init /\ [][NextEnds]_vars

\* ------------------------------------------------------- claims, under SpecEnds
\* C23: a session is billed at most once: over any sequence of end requests on it
\* the debit is invoked at most one time, and the minutes debited from its owner
\* are the minutes_charged of its row.
C23_SessionBilledOnce ==
    Len(luna_sessions) = 1 =>
        /\ deduct_rpc.calls <= 1
        /\ balance0["u1"] - Balance("u1") = luna_sessions[1].minutes_charged

\* ------------------------------------------- send-telegram runs on one date
\* the bot's updates as under SpecTelegram, and up to MaxRuns send-telegram runs
\* with every outcome of the transport
NextPush ==
    \/ GenerateLinkToken("u1")
    \/ \E c \in Chats, token \in 1..MaxTokens : StartSelectExisting(c, token)
    \/ \E c \in Chats : StartFindProfile(c)
    \/ \E c \in Chats : StartWriteConnection(c)
    \/ \E c \in Chats : StartClearToken(c)
    \/ \E c \in Chats : TelegramStop(c)
    \/ /\ Len(telegram_push) < MaxRuns
       /\ \E outcome \in [Chats -> TransportOutcomes] : SendTelegram(outcome)

SpecPush == InitTelegram /\ [][NextPush]_vars

\* ------------------------------------------------------- claims, under SpecPush
\* no chat is delivered the horoscope of one date by two runs
SentAtMostOnce ==
    \A j, k \in 1..Len(telegram_push) :
        (j < k /\ telegram_push[j].date = telegram_push[k].date) =>
            telegram_push[j].delivered \cap telegram_push[k].delivered = {}

\* a horoscope is flagged only if a run delivered it to its user
FlaggedOnlyIfAccepted ==
    \A row \in telegram_sent :
        \E k \in 1..Len(telegram_push) :
            /\ telegram_push[k].date = row[2]
            /\ row[1] \in telegram_push[k].delivered_to

\* C29: over the send-telegram runs of one date each active connection is sent
\* that day's horoscope at most once, and telegram_sent is set only for a
\* horoscope whose message the chat transport accepted.
C29_SentOnceAndFlaggedIfAccepted ==
    SentAtMostOnce /\ FlaggedOnlyIfAccepted

\* ------------------------------------------------ the admin-only endpoints
\* Strings are sequences of characters; the one-letter strings "a" and "b" stand
\* for two e-mail addresses.
SettingChars == {"a", "b", ",", " "}

\* config.py:28  the values of the ADMIN_EMAILS setting, "" by default
AdminSettings == UNION {[1..n -> SettingChars] : n \in 0..MaxLen}

\* auth.py:71  request.state.user_email = payload.get("email", ""): the e-mail
\* claim of the verified token, "" when the token carries none
EmailClaims == {<<>>, <<"a">>, <<"b">>}

\* str.split(sep): the fields between the separators, one more than separators
RECURSIVE Split(_, _)
Split(str, sep) ==
    IF \A i \in 1..Len(str) : str[i] # sep
    THEN <<str>>
    ELSE LET i == CHOOSE k \in 1..Len(str) :
                      /\ str[k] = sep
                      /\ \A j \in 1..(k - 1) : str[j] # sep
         IN <<SubSeq(str, 1, i - 1)>> \o Split(SubSeq(str, i + 1, Len(str)), sep)

\* str.strip(): without the leading and the trailing blanks
RECURSIVE Strip(_)
Strip(str) ==
    IF str = <<>> THEN str
    ELSE IF Head(str) = " " THEN Strip(Tail(str))
    ELSE IF str[Len(str)] = " " THEN Strip(SubSeq(str, 1, Len(str) - 1))
    ELSE str

\* telegram.py:315, admin.py:18  [e.strip() for e in settings.admin_emails.split(",")]
AdminEmails(admin_emails) ==
    LET fields == Split(admin_emails, ",")
    IN {Strip(fields[i]) : i \in 1..Len(fields)}

\* admin.py:16-21  require_admin: 403 unless the e-mail is non-empty and listed
RequireAdminStatus(user_email, admin_emails) ==
    IF user_email = <<>> \/ user_email \notin AdminEmails(admin_emails)
    THEN 403 ELSE 200

\* telegram.py:313-317  the check of setup_webhook: 403 unless the e-mail is listed
SetupWebhookStatus(user_email, admin_emails) ==
    IF user_email \notin AdminEmails(admin_emails) THEN 403 ELSE 200

\* telegram.py:306-329  POST /api/telegram/setup-webhook from an authenticated
\* caller: on 200 the webhook is registered with the chat transport
SetupWebhook ==
    /\ admin' = [admin EXCEPT !.handler = "setup_webhook",
                    !.status = SetupWebhookStatus(admin.user_email, admin.admin_emails)]
    /\ UNCHANGED <<core, bot, clients, gate>>

\* admin.py:16-21  a request to an endpoint of the admin panel
RequireAdmin ==
    /\ admin' = [admin EXCEPT !.handler = "require_admin",
                    !.status = RequireAdminStatus(admin.user_email, admin.admin_emails)]
    /\ UNCHANGED <<core, bot, clients, gate>>

\* the service is deployed with some ADMIN_EMAILS setting and the caller's token
\* carries some e-mail claim
InitAdmin ==
    /\ InitRows
    /\ raises = [model |-> {}, insert |-> {}]
    /\ onboarded = {"u1"}
    /\ today = 1
    /\ daily_horoscopes = <<>>
    /\ scheduler_jobs = <<>>
    /\ job_run = <<>>
    /\ \E admin_emails \in AdminSettings, user_email \in EmailClaims :
           admin = [NoAdminRequest EXCEPT !.admin_emails = admin_emails,
                                          !.user_email = user_email]

NextAdmin ==
    \/ SetupWebhook
    \/ RequireAdmin

SpecAdmin == InitAdmin /\ [][NextAdmin]_vars

\* ------------------------------------------------------ claims, under SpecAdmin
\* C30: setup-webhook is executed only for a caller whose verified e-mail is a
\* non-empty member of the configured admin list, and it answers exactly as
\* require_admin does; with an empty admin list no caller passes, the caller
\* whose token has no e-mail claim included.
C30_SetupWebhookAdminOnly ==
    admin.handler = "setup_webhook" =>
        /\ admin.status = 200 =>
               /\ admin.user_email # <<>>
               /\ admin.user_email \in AdminEmails(admin.admin_emails)
        /\ admin.status = RequireAdminStatus(admin.user_email, admin.admin_emails)

====
